---- MODULE Spec2Model ----
(***************************************************************************)
(* Model of the Glasgow XC9500 CPLD programmer                              *)
(* (software/glasgow/applet/jtag/xc9500.py): the address translation, the   *)
(* JTAGXC9500Interface operations as sequences of TAP transport calls, and  *)
(* JTAGXC9500Applet.interact.  Every transport call (write_ir, write_dr,    *)
(* read_dr, exchange_dr, run_test_idle) is one step; `trace` records the    *)
(* calls issued to the transport, in order.                                 *)
(***************************************************************************)
EXTENDS Integers, Sequences, FiniteSets, TLC

VARIABLES
    args,          \* command line: [operation, slow, bit_file]
    caller,        \* "interact" or "roundtrip": who drives the interface
    flaky,         \* whether the transport may fail in this run
    dev,           \* the CPLD behind the TAP
    pc,            \* position of the single thread of control
    ret,           \* continuations of the interface calls in progress
    exc,           \* the exception that is propagating or has ended the run
    trace,         \* transport calls issued so far
    outer,         \* arguments of the running read() / program() call
    frame,         \* locals of the running _fvfy/_fvfyi/_fpgm/_fpgmi call
    result,        \* value returned by the last interface call
    device,        \* interact: the descriptor returned by identify()
    words,         \* interact: the words read from the .bit file
    out_file,      \* read-bit: words written to the .bit file
    status,        \* the status register last read back (isaddr / isconf / isdata)
    warns,         \* number of "program word failed" warnings logged
    invalid,       \* number of valid=0 answers the device gave to FVFYI
    pass,          \* round trip driver: [mem0, results of the finished passes]
    fsm,           \* HD44780Subtarget: state of the FSM
    timer,         \* HD44780Subtarget: timer
    cmd,           \* HD44780Subtarget: cmd
    data,          \* HD44780Subtarget: data
    msb,           \* HD44780Subtarget: msb
    rs_o,          \* HD44780Subtarget: rs.o
    rw_o,          \* HD44780Subtarget: rw.o
    e_o,           \* HD44780Subtarget: e.o
    d_o,           \* HD44780Subtarget: d.o
    di,            \* HD44780Subtarget: di, the data pins as sampled
    out_fifo,      \* bytes written by the host, not yet taken by the FSM
    in_fifo,       \* bytes written by the FSM, not yet read by the host
    host,          \* bytes the host has yet to write to out_fifo
    bus            \* what the running command has done on the bus so far

lcdvars == <<fsm, timer, cmd, data, msb, rs_o, rw_o, e_o, d_o, di, out_fifo, in_fifo,
             host, bus>>

vars == <<args, caller, flaky, dev, pc, ret, exc, trace, outer, frame, result,
          device, words, out_file, status, warns, invalid, pass, lcdvars>>

xcvars == <<args, caller, flaky, dev, pc, ret, exc, trace, outer, frame, result,
            device, words, out_file, status, warns, invalid, pass>>

----------------------------------------------------------------------------
(* Bounds of the model *)

\* Blocks of the modelled device: device.bitstream_words = 15 * NumBlocks.
NumBlocks == 3
\* Bitstream words range over 0..WordMax.
WordMax == 2
\* The device answers valid=0 to at most MaxInvalid FVFYI reads of a run.
MaxInvalid == 1
\* out_fifo and in_fifo hold at most FifoDepth bytes.
FifoDepth == 1

----------------------------------------------------------------------------
(* Program constants *)

BLOCK_FUSES == 432
BLOCK_WORDS == 15
GROUP_WORDS == 5
BULK_ERASE_CYCLES == 200000
PROGRAM_CYCLES == 20000
ADDRESS_ALL == 65535

Word == 0..WordMax

----------------------------------------------------------------------------
(* Address translation *)

\* The XC9572XL bitstream: 46656 fuse bits in 108 blocks, 1620 words.
XC9572XL_FUSES == 46656
XC9572XL_BLOCKS == 108
XC9572XL_WORDS == 1620

\* Mutant: blocks are taken to be 16 words apart.
jed_to_device_address_stride16(jed_address) ==
    LET block_num == jed_address \div BLOCK_FUSES
        block_bit == jed_address % BLOCK_FUSES
    IN  IF block_bit < 9 * 32
        THEN block_num * 16 + (block_bit \div 32)
        ELSE block_num * 16 + 9 + ((block_bit - 9 * 32) \div 24)

\* Mutant: the 4x6 L-fields are taken to be 32 fuses wide.
jed_to_device_address_wide(jed_address) ==
    LET block_num == jed_address \div BLOCK_FUSES
        block_bit == jed_address % BLOCK_FUSES
    IN  IF block_bit < 9 * 32
        THEN block_num * 15 + (block_bit \div 32)
        ELSE block_num * 15 + 9 + ((block_bit - 9 * 32) \div 32)

\* Mutant: groups are 4 device addresses apart.
bitstream_to_device_address_overlap(word_address) ==
    LET block_num == word_address \div BLOCK_WORDS
        block_off == word_address % BLOCK_WORDS
    IN  32 * block_num + 4 * (block_off \div GROUP_WORDS) + (block_off % GROUP_WORDS)

\* Mutant: groups hold 4 words.
bitstream_to_device_address_group4(word_address) ==
    LET block_num == word_address \div BLOCK_WORDS
        block_off == word_address % BLOCK_WORDS
    IN  32 * block_num + 8 * (block_off \div 4) + (block_off % 4)

jed_to_device_address(jed_address) ==
    LET block_num == jed_address \div BLOCK_FUSES
        block_bit == jed_address % BLOCK_FUSES
    IN  IF block_bit < 9 * 32
        THEN block_num * 15 + (block_bit \div 32)
        ELSE block_num * 15 + 9 + ((block_bit - 9 * 32) \div 24)

bitstream_to_device_address(word_address) ==
    LET block_num == word_address \div BLOCK_WORDS
        block_off == word_address % BLOCK_WORDS
    IN  32 * block_num + 8 * (block_off \div GROUP_WORDS) + (block_off % GROUP_WORDS)

----------------------------------------------------------------------------
(* Data registers.  A register value is its fields; `len` at the transport  *)
(* call is the number of bits shifted (to_bitarray()[:len]).                *)

Reg(valid, strobe, address, word) ==
    [valid |-> valid, strobe |-> strobe, address |-> address, data |-> word]

DR_ISADDRESS(valid, strobe, address) == Reg(valid, strobe, address, 0)
DR_ISDATA(valid, strobe, word) == Reg(valid, strobe, 0, word)
DR_ISCONFIGURATION(valid, strobe, address, word) == Reg(valid, strobe, address, word)

Bit(b) == IF b THEN 1 ELSE 0

\* Transport calls, as recorded in `trace`.
Call(op, ir, len, reg, n) == [op |-> op, ir |-> ir, len |-> len, reg |-> reg, n |-> n]
write_ir(ir) == Call("write_ir", ir, 0, Reg(0, 0, 0, 0), 0)
write_dr(len, reg) == Call("write_dr", "", len, reg, 0)
read_dr(len) == Call("read_dr", "", len, Reg(0, 0, 0, 0), 0)
exchange_dr(len, reg) == Call("exchange_dr", "", len, reg, 0)
run_test_idle(n) == Call("run_test_idle", "", 0, Reg(0, 0, 0, 0), n)

----------------------------------------------------------------------------
(* The device behind the TAP, from the observations recorded in the header *)
(* of xc9500.py: a word memory addressed by device address, a block write   *)
(* buffer that the strobe of FPGM/FPGMI commits while Run-Test/Idle is      *)
(* clocked, and an address counter that FPGM and FVFY set and that FPGMI    *)
(* and FVFYI advance.                                                       *)

DevSize == 32 * NumBlocks
DevAddrs == 0..(DevSize - 1)
NotLoaded == -1
EmptyBuffer == [s \in 0..31 |-> NotLoaded]

\* The address counter steps through the 5 allocated words of each group.
NextAddr(a) ==
    LET n == IF a % 8 < 4 THEN a + 1
             ELSE IF (a % 32) \div 8 < 2 THEN 8 * ((a \div 8) + 1)
             ELSE 32 * ((a \div 32) + 1)
    IN  n % DevSize

\* A pending block write or erase is lost unless Run-Test/Idle is clocked next.
Abandon(d) == [d EXCEPT !.pend = -1, !.erase = FALSE,
                        !.buf = IF d.pend >= 0 THEN EmptyBuffer ELSE d.buf]

DevWriteIr(d, ir) == [Abandon(d) EXCEPT !.ir = ir]

\* Update-DR with value v shifted in.
DevUpdate(d0, v) ==
    LET d == Abandon(d0) IN
    CASE d.ir = "FPGM" /\ v.valid = 1 ->
            [d EXCEPT !.buf[v.address % 32] = v.data,
                      !.ctr = NextAddr(v.address),
                      !.pend = IF v.strobe = 1 THEN (v.address % DevSize) \div 32 ELSE -1]
      [] d.ir = "FPGMI" /\ v.valid = 1 ->
            [d EXCEPT !.buf[d.ctr % 32] = v.data,
                      !.ctr = NextAddr(d.ctr),
                      !.pend = IF v.strobe = 1 THEN d.ctr \div 32 ELSE -1]
      [] d.ir = "FVFY" /\ v.valid = 1 /\ v.strobe = 1 ->
            [d EXCEPT !.rdata = d.mem[v.address % DevSize],
                      !.ctr = NextAddr(v.address)]
      [] d.ir = "FVFYI" ->
            [d EXCEPT !.rdata = d.mem[d.ctr], !.ctr = NextAddr(d.ctr)]
      [] d.ir = "FBULK" /\ v.valid = 1 /\ v.strobe = 1 ->
            [d EXCEPT !.erase = TRUE]
      [] OTHER -> d

\* n clock cycles in Run-Test/Idle.
DevIdle(d, n) ==
    IF d.pend >= 0 /\ n >= 20000
    THEN [d EXCEPT !.mem = [a \in DevAddrs |->
                               IF a \div 32 = d.pend /\ d.buf[a % 32] # NotLoaded
                               THEN d.buf[a % 32] ELSE d.mem[a]],
                   !.buf = EmptyBuffer, !.pend = -1]
    ELSE IF d.erase /\ n >= 200000
    THEN [d EXCEPT !.mem = [a \in DevAddrs |-> 0], !.erase = FALSE]
    ELSE Abandon(d)

\* Capture-DR: the data field the device presents under FVFY / FVFYI.
DevData(d) == IF d.ir \in {"FVFY", "FVFYI"} THEN d.rdata ELSE 0

\* The device database: IDCODE (mfg_id, part_id) -> descriptor, or NoDevice.
NoDevice == [name |-> "", bitstream_words |-> 0]
KnownId == [mfg_id |-> 73, part_id |-> 38404]
OtherId == [mfg_id |-> 73, part_id |-> 38405]
devices(mfg_id, part_id) ==
    IF mfg_id = KnownId.mfg_id /\ part_id = KnownId.part_id
    THEN [name |-> "XC9572XL", bitstream_words |-> BLOCK_WORDS * NumBlocks]
    ELSE NoDevice

----------------------------------------------------------------------------
(* Control: exceptions, calls and returns *)

NoError == [kind |-> "none", offset |-> -1]
Error(kind) == [kind |-> kind, offset |-> -1]

\* Mutant: the try block has no finally clause.
HandlerNoFinally == "done"

\* interact runs everything after read_usercode() inside try/finally; the round
\* trip driver calls the interface directly.
BeforeTry == {"identify", "identify_read_dr", "read_usercode", "read_usercode_read_dr"}
Handler == IF caller = "interact" /\ pc \notin BeforeTry THEN "finally" ELSE "done"

Throw(e) ==
    /\ exc' = e
    /\ pc' = Handler
    /\ ret' = <<>>

\* Mutant: the first transport call of a run is issued again when it fails.
FailRetryFirst ==
    IF trace = <<>>
    THEN UNCHANGED <<pc, ret, exc, dev, outer, frame, result, device, words, out_file,
                     status, warns, invalid>>
    ELSE /\ Throw(Error("TransportError"))
         /\ UNCHANGED <<dev, outer, frame, result, device, words, out_file, status,
                        warns, invalid>>

\* A transport call that fails raises out of the interface operation.
Fail ==
    /\ Throw(Error("TransportError"))
    /\ UNCHANGED <<dev, outer, frame, result, device, words, out_file, status, warns, invalid>>

Return(value) ==
    /\ result' = value
    /\ pc' = Head(ret)
    /\ ret' = Tail(ret)

Issue(call) == trace' = Append(trace, call)

Outcomes == IF flaky THEN BOOLEAN ELSE {TRUE}

NewFrame(address, count, ws) ==
    [address |-> address, count |-> count, offset |-> 0, words |-> ws]

----------------------------------------------------------------------------
(* JTAGXC9500Interface._fvfy(address, count) *)

fvfy_write_ir(ok) ==
    /\ pc = "_fvfy"
    /\ Issue(write_ir("FVFY"))
    /\ IF ok
       THEN /\ dev' = DevWriteIr(dev, "FVFY")
            /\ pc' = "_fvfy_write_dr"
            /\ UNCHANGED <<ret, exc, outer, frame, result, device, words, out_file,
                           status, warns, invalid>>
       ELSE Fail
    /\ UNCHANGED <<args, caller, flaky, pass, lcdvars>>

fvfy_write_dr(ok) ==
    LET dev_address == bitstream_to_device_address(frame.address)
        isconf == DR_ISCONFIGURATION(1, 1, dev_address, 0)
    IN  /\ pc = "_fvfy_write_dr"
        /\ Issue(write_dr(50, isconf))
        /\ IF ok
           THEN /\ dev' = DevUpdate(dev, isconf)
                /\ frame' = [frame EXCEPT !.words = <<>>, !.offset = 0]
                /\ pc' = "_fvfy_loop"
                /\ UNCHANGED <<ret, exc, outer, result, device, words, out_file,
                               status, warns, invalid>>
           ELSE Fail
        /\ UNCHANGED <<args, caller, flaky, pass, lcdvars>>

\* Mutant: the exchange presents the address of the word it returns.
fvfy_exchange_dr_same(ok) ==
    LET dev_address == bitstream_to_device_address(frame.address + frame.offset)
        isconf == DR_ISCONFIGURATION(1, 1, dev_address, 0)
    IN  /\ pc = "_fvfy_loop"
        /\ frame.offset < frame.count
        /\ Issue(exchange_dr(50, isconf))
        /\ IF ok
           THEN /\ dev' = DevUpdate(dev, isconf)
                /\ frame' = [frame EXCEPT !.words = Append(@, DevData(dev)),
                                          !.offset = @ + 1]
                /\ UNCHANGED <<pc, ret, exc, outer, result, device, words, out_file,
                               status, warns, invalid>>
           ELSE Fail
        /\ UNCHANGED <<args, caller, flaky, pass, lcdvars>>

fvfy_exchange_dr(ok) ==
    LET dev_address == bitstream_to_device_address(frame.address + frame.offset + 1)
        isconf == DR_ISCONFIGURATION(1, 1, dev_address, 0)
    IN  /\ pc = "_fvfy_loop"
        /\ frame.offset < frame.count
        /\ Issue(exchange_dr(50, isconf))
        /\ IF ok
           THEN /\ dev' = DevUpdate(dev, isconf)
                /\ frame' = [frame EXCEPT !.words = Append(@, DevData(dev)),
                                          !.offset = @ + 1]
                /\ UNCHANGED <<pc, ret, exc, outer, result, device, words, out_file,
                               status, warns, invalid>>
           ELSE Fail
        /\ UNCHANGED <<args, caller, flaky, pass, lcdvars>>

fvfy_return ==
    /\ pc = "_fvfy_loop"
    /\ frame.offset >= frame.count
    /\ Return(frame.words)
    /\ UNCHANGED <<args, caller, flaky, dev, exc, trace, outer, frame, device, words,
                   out_file, status, warns, invalid, pass, lcdvars>>

----------------------------------------------------------------------------
(* JTAGXC9500Interface._fvfyi(count) *)

fvfyi_write_ir(ok) ==
    /\ pc = "_fvfyi"
    /\ Issue(write_ir("FVFYI"))
    /\ IF ok
       THEN /\ dev' = DevWriteIr(dev, "FVFYI")
            /\ frame' = [frame EXCEPT !.words = <<>>, !.offset = 0]
            /\ pc' = "_fvfyi_loop"
            /\ UNCHANGED <<ret, exc, outer, result, device, words, out_file,
                           status, warns, invalid>>
       ELSE Fail
    /\ UNCHANGED <<args, caller, flaky, pass, lcdvars>>

\* Mutant: an answer with valid=0 is taken as a word too.
fvfyi_read_dr_keep(ok, valid) ==
    /\ pc = "_fvfyi_loop"
    /\ frame.offset < frame.count
    /\ valid = 0 => invalid < MaxInvalid
    /\ Issue(read_dr(34))
    /\ IF ok
       THEN /\ frame' = [frame EXCEPT !.words = Append(@, DevData(dev)),
                                      !.offset = @ + 1]
            /\ IF valid = 1
               THEN /\ dev' = DevUpdate(dev, DR_ISDATA(0, 0, 0))
                    /\ UNCHANGED invalid
               ELSE /\ invalid' = invalid + 1
                    /\ UNCHANGED dev
            /\ UNCHANGED <<pc, ret, exc, outer, result, device, words, out_file, status, warns>>
       ELSE Fail
    /\ UNCHANGED <<args, caller, flaky, pass, lcdvars>>

\* Mutant: the poll gives up with an error at the last answer with valid=0
\* that the model allows.
fvfyi_read_dr_ceiling(ok, valid) ==
    /\ pc = "_fvfyi_loop"
    /\ frame.offset < frame.count
    /\ valid = 0 => invalid < MaxInvalid
    /\ Issue(read_dr(34))
    /\ IF ok
       THEN IF valid = 1
            THEN /\ frame' = [frame EXCEPT !.words = Append(@, DevData(dev)),
                                           !.offset = @ + 1]
                 /\ dev' = DevUpdate(dev, DR_ISDATA(0, 0, 0))
                 /\ UNCHANGED <<pc, ret, exc, outer, result, device, words, out_file,
                                status, warns, invalid>>
            ELSE /\ invalid' = invalid + 1
                 /\ IF invalid + 1 >= MaxInvalid
                    THEN Throw(Error("DeviceNotResponding"))
                    ELSE UNCHANGED <<pc, ret, exc>>
                 /\ UNCHANGED <<frame, dev, outer, result, device, words, out_file,
                                status, warns>>
       ELSE Fail
    /\ UNCHANGED <<args, caller, flaky, pass, lcdvars>>

\* One read_dr(34); `valid` is the valid bit of the device's answer.  A device
\* that is not ready answers valid=0 and keeps its counter.
fvfyi_read_dr(ok, valid) ==
    /\ pc = "_fvfyi_loop"
    /\ frame.offset < frame.count
    /\ valid = 0 => invalid < MaxInvalid
    /\ Issue(read_dr(34))
    /\ IF ok
       THEN /\ IF valid = 1
               THEN /\ frame' = [frame EXCEPT !.words = Append(@, DevData(dev)),
                                              !.offset = @ + 1]
                    /\ dev' = DevUpdate(dev, DR_ISDATA(0, 0, 0))
                    /\ UNCHANGED invalid
               ELSE /\ invalid' = invalid + 1
                    /\ UNCHANGED <<frame, dev>>
            /\ UNCHANGED <<pc, ret, exc, outer, result, device, words, out_file, status, warns>>
       ELSE Fail
    /\ UNCHANGED <<args, caller, flaky, pass, lcdvars>>

fvfyi_return ==
    /\ pc = "_fvfyi_loop"
    /\ frame.offset >= frame.count
    /\ Return(frame.words)
    /\ UNCHANGED <<args, caller, flaky, dev, exc, trace, outer, frame, device, words,
                   out_file, status, warns, invalid, pass, lcdvars>>

----------------------------------------------------------------------------
(* JTAGXC9500Interface.read(address, count, fast) *)

\* Mutant: the fast path asks _fvfy for the words too.
read_fvfy_count ==
    /\ pc = "read"
    /\ frame' = NewFrame(outer.address, outer.count, <<>>)
    /\ ret' = IF outer.fast THEN <<"read_fvfyi">> \o ret ELSE ret
    /\ pc' = "_fvfy"
    /\ UNCHANGED <<args, caller, flaky, dev, exc, trace, outer, result, device, words,
                   out_file, status, warns, invalid, pass, lcdvars>>

read ==
    /\ pc = "read"
    /\ IF outer.fast
       THEN \* Use FVFY just to set the address counter.
            /\ frame' = NewFrame(outer.address, 0, <<>>)
            /\ ret' = <<"read_fvfyi">> \o ret
       ELSE \* Use FVFY for all reads.
            /\ frame' = NewFrame(outer.address, outer.count, <<>>)
            /\ ret' = ret
    /\ pc' = "_fvfy"
    /\ UNCHANGED <<args, caller, flaky, dev, exc, trace, outer, result, device, words,
                   out_file, status, warns, invalid, pass, lcdvars>>

\* Use FVFYI for much faster reads; the result of _fvfy(address, 0) is dropped.
read_fvfyi ==
    /\ pc = "read_fvfyi"
    /\ frame' = NewFrame(0, outer.count, <<>>)
    /\ pc' = "_fvfyi"
    /\ UNCHANGED <<args, caller, flaky, dev, ret, exc, trace, outer, result, device,
                   words, out_file, status, warns, invalid, pass, lcdvars>>

----------------------------------------------------------------------------
(* JTAGXC9500Interface.bulk_erase() *)

\* Mutant: only the valid bit is checked.
StatusOkValidOnly(reg) == reg.valid = 1

\* Success check of FBULK and FPGM: valid bit high and strobe bit low.
StatusOk(reg) == reg.valid = 1 /\ ~(reg.strobe = 1)

Flags == {0, 1}

bulk_erase_write_ir(ok) ==
    /\ pc = "bulk_erase"
    /\ Issue(write_ir("FBULK"))
    /\ IF ok
       THEN /\ dev' = DevWriteIr(dev, "FBULK")
            /\ pc' = "bulk_erase_write_dr"
            /\ UNCHANGED <<ret, exc, outer, frame, result, device, words, out_file,
                           status, warns, invalid>>
       ELSE Fail
    /\ UNCHANGED <<args, caller, flaky, pass, lcdvars>>

\* Mutant: the erase address is shifted as a 34-bit register.
bulk_erase_write_dr_34(ok) ==
    LET isaddr == DR_ISADDRESS(1, 1, ADDRESS_ALL)
    IN  /\ pc = "bulk_erase_write_dr"
        /\ Issue(write_dr(34, isaddr))
        /\ IF ok
           THEN /\ dev' = DevUpdate(dev, isaddr)
                /\ pc' = "bulk_erase_idle"
                /\ UNCHANGED <<ret, exc, outer, frame, result, device, words, out_file,
                               status, warns, invalid>>
           ELSE Fail
        /\ UNCHANGED <<args, caller, flaky, pass, lcdvars>>

bulk_erase_write_dr(ok) ==
    LET isaddr == DR_ISADDRESS(1, 1, ADDRESS_ALL)
    IN  /\ pc = "bulk_erase_write_dr"
        /\ Issue(write_dr(18, isaddr))
        /\ IF ok
           THEN /\ dev' = DevUpdate(dev, isaddr)
                /\ pc' = "bulk_erase_idle"
                /\ UNCHANGED <<ret, exc, outer, frame, result, device, words, out_file,
                               status, warns, invalid>>
           ELSE Fail
        /\ UNCHANGED <<args, caller, flaky, pass, lcdvars>>

bulk_erase_run_test_idle(ok) ==
    /\ pc = "bulk_erase_idle"
    /\ Issue(run_test_idle(BULK_ERASE_CYCLES))
    /\ IF ok
       THEN /\ dev' = DevIdle(dev, BULK_ERASE_CYCLES)
            /\ pc' = "bulk_erase_read_dr"
            /\ UNCHANGED <<ret, exc, outer, frame, result, device, words, out_file,
                           status, warns, invalid>>
       ELSE Fail
    /\ UNCHANGED <<args, caller, flaky, pass, lcdvars>>

\* The readback; (valid, strobe) are the status bits the device answers.
bulk_erase_read_dr(ok, valid, strobe) ==
    LET isaddr == DR_ISADDRESS(valid, strobe, 0)
    IN  /\ pc = "bulk_erase_read_dr"
        /\ Issue(read_dr(18))
        /\ IF ok
           THEN /\ dev' = DevUpdate(dev, DR_ISADDRESS(0, 0, 0))
                /\ status' = isaddr
                /\ IF ~StatusOk(isaddr)
                   THEN /\ Throw(Error("bulk erase failed"))
                        /\ UNCHANGED result
                   ELSE Return(<<>>) /\ UNCHANGED exc
                /\ UNCHANGED <<outer, frame, device, words, out_file, warns, invalid>>
           ELSE Fail
        /\ UNCHANGED <<args, caller, flaky, pass, lcdvars>>

----------------------------------------------------------------------------
(* JTAGXC9500Interface._fpgm(address, words) *)

\* Mutant: the strobe is put on the first word of a block.
BlockStrobeFirst(offset) == offset % BLOCK_WORDS = 0

\* The last word of a block carries the block write strobe.
BlockStrobe(offset) == offset % BLOCK_WORDS = BLOCK_WORDS - 1

fpgm_write_ir(ok) ==
    /\ pc = "_fpgm"
    /\ Issue(write_ir("FPGM"))
    /\ IF ok
       THEN /\ dev' = DevWriteIr(dev, "FPGM")
            /\ frame' = [frame EXCEPT !.offset = 0]
            /\ pc' = "_fpgm_loop"
            /\ UNCHANGED <<ret, exc, outer, result, device, words, out_file,
                           status, warns, invalid>>
       ELSE Fail
    /\ UNCHANGED <<args, caller, flaky, pass, lcdvars>>

fpgm_write_dr(ok) ==
    LET offset == frame.offset
        word == frame.words[offset + 1]
        dev_address == bitstream_to_device_address(frame.address + offset)
        strobe == BlockStrobe(offset)
        isconf == DR_ISCONFIGURATION(1, Bit(strobe), dev_address, word)
    IN  /\ pc = "_fpgm_loop"
        /\ frame.offset < Len(frame.words)
        /\ Issue(write_dr(50, isconf))
        /\ IF ok
           THEN /\ dev' = DevUpdate(dev, isconf)
                /\ IF strobe
                   THEN pc' = "_fpgm_idle" /\ UNCHANGED frame
                   ELSE pc' = pc /\ frame' = [frame EXCEPT !.offset = @ + 1]
                /\ UNCHANGED <<ret, exc, outer, result, device, words, out_file,
                               status, warns, invalid>>
           ELSE Fail
        /\ UNCHANGED <<args, caller, flaky, pass, lcdvars>>

fpgm_run_test_idle(ok) ==
    /\ pc = "_fpgm_idle"
    /\ Issue(run_test_idle(PROGRAM_CYCLES))
    /\ IF ok
       THEN /\ dev' = DevIdle(dev, PROGRAM_CYCLES)
            /\ pc' = "_fpgm_probe"
            /\ UNCHANGED <<ret, exc, outer, frame, result, device, words, out_file,
                           status, warns, invalid>>
       ELSE Fail
    /\ UNCHANGED <<args, caller, flaky, pass, lcdvars>>

\* Mutant: a failed probe raises instead of logging a warning.
fpgm_exchange_dr_fatal(ok, valid, strobe) ==
    LET dev_address == bitstream_to_device_address(frame.address + frame.offset)
        probe == DR_ISCONFIGURATION(0, 0, dev_address, 0)
        isconf == DR_ISCONFIGURATION(valid, strobe, 0, 0)
    IN  /\ pc = "_fpgm_probe"
        /\ Issue(exchange_dr(50, probe))
        /\ IF ok
           THEN /\ dev' = DevUpdate(dev, probe)
                /\ status' = isconf
                /\ IF ~(isconf.valid = 1 /\ ~(isconf.strobe = 1))
                   THEN Throw(Error("program word failed")) /\ UNCHANGED frame
                   ELSE /\ frame' = [frame EXCEPT !.offset = @ + 1]
                        /\ pc' = "_fpgm_loop"
                        /\ UNCHANGED <<ret, exc>>
                /\ UNCHANGED <<outer, result, device, words, out_file, warns, invalid>>
           ELSE Fail
        /\ UNCHANGED <<args, caller, flaky, pass, lcdvars>>

\* The block-boundary probe; (valid, strobe) are the status bits answered.
fpgm_exchange_dr(ok, valid, strobe) ==
    LET dev_address == bitstream_to_device_address(frame.address + frame.offset)
        probe == DR_ISCONFIGURATION(0, 0, dev_address, 0)
        isconf == DR_ISCONFIGURATION(valid, strobe, 0, 0)
    IN  /\ pc = "_fpgm_probe"
        /\ Issue(exchange_dr(50, probe))
        /\ IF ok
           THEN /\ dev' = DevUpdate(dev, probe)
                /\ status' = isconf
                /\ warns' = IF ~StatusOk(isconf) THEN warns + 1 ELSE warns
                /\ frame' = [frame EXCEPT !.offset = @ + 1]
                /\ pc' = "_fpgm_loop"
                /\ UNCHANGED <<ret, exc, outer, result, device, words, out_file, invalid>>
           ELSE Fail
        /\ UNCHANGED <<args, caller, flaky, pass, lcdvars>>

\* Mutant: the priming write is issued after a non-empty word list too.
fpgm_prime_always(ok) ==
    LET dev_address == bitstream_to_device_address(frame.address)
        isconf == DR_ISCONFIGURATION(1, 0, dev_address, 0)
    IN  /\ pc = "_fpgm_loop"
        /\ frame.offset >= Len(frame.words)
        /\ Issue(write_dr(50, isconf))
        /\ IF ok
           THEN /\ dev' = DevUpdate(dev, isconf)
                /\ Return(<<>>)
                /\ UNCHANGED <<exc, outer, frame, device, words, out_file, status, warns, invalid>>
           ELSE Fail
        /\ UNCHANGED <<args, caller, flaky, pass, lcdvars>>

\* if not words: one write to set the address counter.
fpgm_prime(ok) ==
    LET dev_address == bitstream_to_device_address(frame.address)
        isconf == DR_ISCONFIGURATION(1, 0, dev_address, 0)
    IN  /\ pc = "_fpgm_loop"
        /\ frame.offset >= Len(frame.words)
        /\ frame.words = <<>>
        /\ Issue(write_dr(50, isconf))
        /\ IF ok
           THEN /\ dev' = DevUpdate(dev, isconf)
                /\ Return(<<>>)
                /\ UNCHANGED <<exc, outer, frame, device, words, out_file, status, warns, invalid>>
           ELSE Fail
        /\ UNCHANGED <<args, caller, flaky, pass, lcdvars>>

fpgm_return ==
    /\ pc = "_fpgm_loop"
    /\ frame.offset >= Len(frame.words)
    /\ frame.words # <<>>
    /\ Return(<<>>)
    /\ UNCHANGED <<args, caller, flaky, dev, exc, trace, outer, frame, device, words,
                   out_file, status, warns, invalid, pass, lcdvars>>

----------------------------------------------------------------------------
(* JTAGXC9500Interface._fpgmi(words) *)

fpgmi_write_ir(ok) ==
    /\ pc = "_fpgmi"
    /\ Issue(write_ir("FPGMI"))
    /\ IF ok
       THEN /\ dev' = DevWriteIr(dev, "FPGMI")
            /\ frame' = [frame EXCEPT !.offset = 0]
            /\ pc' = "_fpgmi_loop"
            /\ UNCHANGED <<ret, exc, outer, result, device, words, out_file,
                           status, warns, invalid>>
       ELSE Fail
    /\ UNCHANGED <<args, caller, flaky, pass, lcdvars>>

fpgmi_write_dr(ok) ==
    LET offset == frame.offset
        word == frame.words[offset + 1]
        strobe == BlockStrobe(offset)
        isdata == DR_ISDATA(1, Bit(strobe), word)
    IN  /\ pc = "_fpgmi_loop"
        /\ frame.offset < Len(frame.words)
        /\ Issue(write_dr(34, isdata))
        /\ IF ok
           THEN /\ dev' = DevUpdate(dev, isdata)
                /\ IF strobe
                   THEN pc' = "_fpgmi_idle" /\ UNCHANGED frame
                   ELSE pc' = pc /\ frame' = [frame EXCEPT !.offset = @ + 1]
                /\ UNCHANGED <<ret, exc, outer, result, device, words, out_file,
                               status, warns, invalid>>
           ELSE Fail
        /\ UNCHANGED <<args, caller, flaky, pass, lcdvars>>

fpgmi_run_test_idle(ok) ==
    /\ pc = "_fpgmi_idle"
    /\ Issue(run_test_idle(PROGRAM_CYCLES))
    /\ IF ok
       THEN /\ dev' = DevIdle(dev, PROGRAM_CYCLES)
            /\ pc' = "_fpgmi_probe"
            /\ UNCHANGED <<ret, exc, outer, frame, result, device, words, out_file,
                           status, warns, invalid>>
       ELSE Fail
    /\ UNCHANGED <<args, caller, flaky, pass, lcdvars>>

fpgmi_exchange_dr(ok, valid, strobe) ==
    LET probe == DR_ISDATA(0, 0, 0)
        isdata == DR_ISDATA(valid, strobe, 0)
    IN  /\ pc = "_fpgmi_probe"
        /\ Issue(exchange_dr(34, probe))
        /\ IF ok
           THEN /\ dev' = DevUpdate(dev, probe)
                /\ status' = isdata
                /\ warns' = IF ~StatusOk(isdata) THEN warns + 1 ELSE warns
                /\ frame' = [frame EXCEPT !.offset = @ + 1]
                /\ pc' = "_fpgmi_loop"
                /\ UNCHANGED <<ret, exc, outer, result, device, words, out_file, invalid>>
           ELSE Fail
        /\ UNCHANGED <<args, caller, flaky, pass, lcdvars>>

fpgmi_return ==
    /\ pc = "_fpgmi_loop"
    /\ frame.offset >= Len(frame.words)
    /\ Return(<<>>)
    /\ UNCHANGED <<args, caller, flaky, dev, exc, trace, outer, frame, device, words,
                   out_file, status, warns, invalid, pass, lcdvars>>

----------------------------------------------------------------------------
(* JTAGXC9500Interface.program(address, words, fast) *)

\* Mutant: the slice starts one word late.
SliceLate(ws, i, j) ==
    LET hi == IF j < Len(ws) THEN j ELSE Len(ws)
    IN  IF i + 1 >= hi THEN <<>> ELSE SubSeq(ws, i + 2, hi)

\* words[i:j] of Python, on a TLA+ sequence.
Slice(ws, i, j) ==
    LET hi == IF j < Len(ws) THEN j ELSE Len(ws)
    IN  IF i >= hi THEN <<>> ELSE SubSeq(ws, i + 1, hi)

\* Mutant: only the address is asserted to be block-aligned.
ProgramAssertionAddressOnly(address, ws) ==
    address % BLOCK_WORDS = 0

ProgramAssertion(address, ws) ==
    address % BLOCK_WORDS = 0 /\ Len(ws) % BLOCK_WORDS = 0

program ==
    /\ pc = "program"
    /\ IF ~ProgramAssertion(outer.address, outer.words)
       THEN /\ Throw(Error("AssertionError"))
            /\ UNCHANGED frame
       ELSE /\ IF outer.fast
               THEN \* Use FPGM to program first block and set the address counter.
                    /\ frame' = NewFrame(0, 0, Slice(outer.words, 0, BLOCK_WORDS))
                    /\ ret' = <<"program_fpgmi">> \o ret
               ELSE \* Use FPGM for all writes.
                    /\ frame' = NewFrame(outer.address, 0, outer.words)
                    /\ ret' = ret
            /\ pc' = "_fpgm"
            /\ UNCHANGED exc
    /\ UNCHANGED <<args, caller, flaky, dev, trace, outer, result, device, words,
                   out_file, status, warns, invalid, pass, lcdvars>>

\* Use FPGMI for much faster following writes.
program_fpgmi ==
    /\ pc = "program_fpgmi"
    /\ frame' = NewFrame(0, 0, Slice(outer.words, BLOCK_WORDS, Len(outer.words)))
    /\ pc' = "_fpgmi"
    /\ UNCHANGED <<args, caller, flaky, dev, ret, exc, trace, outer, result, device,
                   words, out_file, status, warns, invalid, pass, lcdvars>>

----------------------------------------------------------------------------
(* JTAGXC9500Interface.identify(), read_usercode() and the head of         *)
(* JTAGXC9500Applet.interact                                               *)

\* Mutant: interact does not check the descriptor.
DeviceIsNoneUnchecked(d) == FALSE

DeviceIsNone(d) == d = NoDevice

identify_write_ir(ok) ==
    /\ pc = "identify"
    /\ Issue(write_ir("IDCODE"))
    /\ IF ok
       THEN /\ dev' = DevWriteIr(dev, "IDCODE")
            /\ pc' = "identify_read_dr"
            /\ UNCHANGED <<ret, exc, outer, frame, result, device, words, out_file,
                           status, warns, invalid>>
       ELSE Fail
    /\ UNCHANGED <<args, caller, flaky, pass, lcdvars>>

\* read_dr(32), the database lookup, and interact's check of the descriptor.
identify_read_dr(ok) ==
    LET idcode == dev.idcode
        found == devices(idcode.mfg_id, idcode.part_id)
    IN  /\ pc = "identify_read_dr"
        /\ Issue(read_dr(32))
        /\ IF ok
           THEN /\ device' = found
                /\ IF DeviceIsNone(found)
                   THEN Throw(Error("cannot operate on unknown device"))
                   ELSE pc' = "read_usercode" /\ UNCHANGED <<ret, exc>>
                /\ UNCHANGED <<dev, outer, frame, result, words, out_file, status, warns, invalid>>
           ELSE Fail
        /\ UNCHANGED <<args, caller, flaky, pass, lcdvars>>

read_usercode_write_ir(ok) ==
    /\ pc = "read_usercode"
    /\ Issue(write_ir("USERCODE"))
    /\ IF ok
       THEN /\ dev' = DevWriteIr(dev, "USERCODE")
            /\ pc' = "read_usercode_read_dr"
            /\ UNCHANGED <<ret, exc, outer, frame, result, device, words, out_file,
                           status, warns, invalid>>
       ELSE Fail
    /\ UNCHANGED <<args, caller, flaky, pass, lcdvars>>

read_usercode_read_dr(ok) ==
    /\ pc = "read_usercode_read_dr"
    /\ Issue(read_dr(32))
    /\ IF ok
       THEN /\ pc' = "try"
            /\ UNCHANGED <<dev, ret, exc, outer, frame, result, device, words, out_file,
                           status, warns, invalid>>
       ELSE Fail
    /\ UNCHANGED <<args, caller, flaky, pass, lcdvars>>

----------------------------------------------------------------------------
(* JTAGXC9500Applet.interact: the try block *)

\* Mutant: the size of the .bit file is not checked.
SizeOkUnchecked(ws, d) == TRUE

SizeOk(ws, d) == Len(ws) = d.bitstream_words

\* Mutant: the erase branch does not call programming_enable().
FirstStepEraseBare(operation) ==
    IF operation \in {"read-bit", "program-bit", "verify-bit"} THEN "programming_enable"
    ELSE IF operation = "erase" THEN "operation"
    ELSE "finally"

\* Each operation of interact starts with programming_enable(); with no
\* operation selected the try block is empty.
FirstStep(operation) ==
    IF operation \in {"read-bit", "program-bit", "verify-bit", "erase"}
    THEN "programming_enable" ELSE "finally"

\* Entry of the try block: for program-bit and verify-bit the .bit file is
\* read and its size checked before anything else.
interact_try ==
    /\ pc = "try"
    /\ IF args.operation \in {"program-bit", "verify-bit"}
       THEN /\ words' = args.bit_file
            /\ IF ~SizeOk(args.bit_file, device)
               THEN Throw(Error("incorrect .bit file size"))
               ELSE pc' = FirstStep(args.operation) /\ UNCHANGED <<ret, exc>>
       ELSE /\ UNCHANGED <<words, ret, exc>>
            /\ pc' = FirstStep(args.operation)
    /\ UNCHANGED <<args, caller, flaky, dev, trace, outer, frame, result, device,
                   out_file, status, warns, invalid, pass, lcdvars>>

Arguments(address, count, ws, fast) ==
    [address |-> address, count |-> count, words |-> ws, fast |-> fast]

programming_enable(ok) ==
    /\ pc = "programming_enable"
    /\ Issue(write_ir("ISPEN"))
    /\ IF ok
       THEN /\ dev' = DevWriteIr(dev, "ISPEN")
            /\ pc' = "operation"
            /\ UNCHANGED <<ret, exc, outer, frame, result, device, words, out_file,
                           status, warns, invalid>>
       ELSE Fail
    /\ UNCHANGED <<args, caller, flaky, pass, lcdvars>>

\* The call of the selected operation, after programming_enable().
interact_operation ==
    /\ pc = "operation"
    /\ CASE args.operation = "read-bit" ->
              /\ outer' = Arguments(0, device.bitstream_words, <<>>, ~args.slow)
              /\ pc' = "read"
              /\ ret' = <<"read_bit_write">>
         [] args.operation = "verify-bit" ->
              /\ outer' = Arguments(0, device.bitstream_words, <<>>, ~args.slow)
              /\ pc' = "read"
              /\ ret' = <<"verify_compare">>
         [] args.operation = "program-bit" ->
              /\ outer' = Arguments(0, 0, words, ~args.slow)
              /\ pc' = "program"
              /\ ret' = <<"finally">>
         [] args.operation = "erase" ->
              /\ outer' = outer
              /\ pc' = "bulk_erase"
              /\ ret' = <<"finally">>
    /\ UNCHANGED <<args, caller, flaky, dev, exc, trace, frame, result, device, words,
                   out_file, status, warns, invalid, pass, lcdvars>>

\* read-bit: every word read is written to the .bit file.
read_bit_write ==
    /\ pc = "read_bit_write"
    /\ out_file' = result
    /\ pc' = "finally"
    /\ UNCHANGED <<args, caller, flaky, dev, ret, exc, trace, outer, frame, result,
                   device, words, status, warns, invalid, pass, lcdvars>>

\* Mutant: the loop does not stop at the first mismatch, so the last one is reported.
RECURSIVE VerifyLast(_, _, _)
VerifyLast(device_words, gold_words, offset) ==
    IF offset >= Len(device_words) \/ offset >= Len(gold_words) THEN -1
    ELSE LET later == VerifyLast(device_words, gold_words, offset + 1)
         IN  IF later >= 0 THEN later
             ELSE IF device_words[offset + 1] # gold_words[offset + 1] THEN offset
             ELSE -1

\* for offset, (device_word, gold_word) in enumerate(zip(device_words, words)):
\* the offset of the first pair that differs, or -1.
RECURSIVE VerifyFrom(_, _, _)
VerifyFrom(device_words, gold_words, offset) ==
    IF offset >= Len(device_words) \/ offset >= Len(gold_words) THEN -1
    ELSE IF device_words[offset + 1] # gold_words[offset + 1] THEN offset
    ELSE VerifyFrom(device_words, gold_words, offset + 1)

verify_compare ==
    LET failed == VerifyFrom(result, words, 0)
    IN  /\ pc = "verify_compare"
        /\ IF failed >= 0
           THEN Throw([kind |-> "bitstream verification failed", offset |-> failed])
           ELSE pc' = "finally" /\ UNCHANGED <<ret, exc>>
        /\ UNCHANGED <<args, caller, flaky, dev, trace, outer, frame, result, device,
                       words, out_file, status, warns, invalid, pass, lcdvars>>

\* finally: programming_disable().  An exception of the try block keeps
\* propagating unless programming_disable() itself raises.
programming_disable(ok) ==
    /\ pc = "finally"
    /\ Issue(write_ir("ISPEX"))
    /\ dev' = IF ok THEN DevWriteIr(dev, "ISPEX") ELSE dev
    /\ exc' = IF ok THEN exc ELSE Error("TransportError")
    /\ pc' = "done"
    /\ ret' = <<>>
    /\ UNCHANGED <<args, caller, flaky, outer, frame, result, device, words, out_file,
                   status, warns, invalid, pass, lcdvars>>

----------------------------------------------------------------------------
(* Round trip driver: program(0, words, fast) followed by                  *)
(* read(0, len(words), fast), first on the slow path and then, from the    *)
(* same initial device memory, on the fast path.                           *)

DevInit(mem, idcode) ==
    [ir |-> "BYPASS", mem |-> mem, buf |-> EmptyBuffer, ctr |-> 24 % DevSize,
     rdata |-> 0, pend |-> -1, erase |-> FALSE, idcode |-> idcode]

PassFast == Len(pass.results) = 1

rt_program ==
    /\ pc = "rt_program"
    /\ outer' = Arguments(0, 0, args.bit_file, PassFast)
    /\ pc' = "program"
    /\ ret' = <<"rt_read">>
    /\ UNCHANGED <<args, caller, flaky, dev, exc, trace, frame, result, device, words,
                   out_file, status, warns, invalid, pass, lcdvars>>

rt_read ==
    /\ pc = "rt_read"
    /\ outer' = Arguments(0, Len(args.bit_file), <<>>, PassFast)
    /\ pc' = "read"
    /\ ret' = <<"rt_end">>
    /\ UNCHANGED <<args, caller, flaky, dev, exc, trace, frame, result, device, words,
                   out_file, status, warns, invalid, pass, lcdvars>>

rt_end ==
    /\ pc = "rt_end"
    /\ pass' = [pass EXCEPT !.results = Append(@, result)]
    /\ IF Len(pass.results) = 0
       THEN /\ dev' = DevInit(pass.mem0, dev.idcode)
            /\ trace' = <<>>
            /\ invalid' = 0
            /\ pc' = "rt_program"
       ELSE /\ pc' = "done"
            /\ UNCHANGED <<dev, trace, invalid>>
    /\ UNCHANGED <<args, caller, flaky, ret, exc, outer, frame, result, device, words,
                   out_file, status, warns>>
    /\ UNCHANGED lcdvars

----------------------------------------------------------------------------
(* HD44780Subtarget (software/glasgow/applet/hd44780.py): the FSM that      *)
(* drives the display over RS, R/W, E and D4..D7.  One step of the FSM is   *)
(* one clock cycle; NextValue assignments show in the next state.           *)

XFER_BIT_DATA == 1
XFER_BIT_READ == 2
XFER_BIT_HALF == 4
XFER_BIT_WAIT == 8

\* Cycles at 30 MHz: ceil(60e-9 * 30e6), ceil(500e-9 * 30e6),
\* ceil(700e-9 * 30e6), ceil(1.52e-3 * 30e6).
rx_setup_cyc == 2
e_pulse_cyc == 15
e_wait_cyc == 21
cmd_wait_cyc == 45600

\* value & mask != 0, for a mask of one bit
BitSet(value, mask) == (value \div mask) % 2 = 1

\* What a command does on the bus, as recorded in `bus`: the command byte
\* taken ("cmd"), a data byte taken ("data"), a rising edge of E with the
\* nibble on d.o ("E"), a nibble sampled from di at the falling edge of E
\* ("sample"), a byte written to in_fifo ("in_fifo").
Event(ev, value) == [ev |-> ev, value |-> value]

LcdReset ==
    /\ fsm = "IDLE"
    /\ timer = 0
    /\ cmd = 0
    /\ data = 0
    /\ msb = 0
    /\ rs_o = 0
    /\ rw_o = 0
    /\ e_o = 0
    /\ d_o = 0
    /\ di = 0
    /\ out_fifo = <<>>
    /\ in_fifo = <<>>
    /\ bus = <<>>

\* No applet drives the display: nothing is written to the port.
LcdIdle ==
    /\ LcdReset
    /\ host = <<>>

fsm_IDLE ==
    /\ fsm = "IDLE"
    /\ e_o' = 0
    /\ IF out_fifo # <<>>
       THEN /\ out_fifo' = Tail(out_fifo)
            /\ cmd' = Head(out_fifo)
            /\ fsm' = "COMMAND"
            /\ bus' = <<Event("cmd", Head(out_fifo))>>
       ELSE UNCHANGED <<out_fifo, cmd, fsm, bus>>
    /\ UNCHANGED <<timer, data, msb, rs_o, rw_o, d_o, di, in_fifo, host>>
    /\ UNCHANGED xcvars

fsm_COMMAND ==
    /\ fsm = "COMMAND"
    /\ msb' = Bit(~BitSet(cmd, XFER_BIT_HALF))
    /\ rs_o' = Bit(BitSet(cmd, XFER_BIT_DATA))
    /\ rw_o' = Bit(BitSet(cmd, XFER_BIT_READ))
    /\ IF BitSet(cmd, XFER_BIT_WAIT)
       THEN /\ timer' = cmd_wait_cyc
            /\ fsm' = "WAIT"
            /\ UNCHANGED <<out_fifo, data, bus>>
       ELSE IF BitSet(cmd, XFER_BIT_READ)
       THEN /\ timer' = rx_setup_cyc
            /\ fsm' = "READ-SETUP"
            /\ UNCHANGED <<out_fifo, data, bus>>
       ELSE IF out_fifo # <<>>
       THEN /\ out_fifo' = Tail(out_fifo)
            /\ data' = Head(out_fifo)
            /\ fsm' = "WRITE"
            /\ bus' = Append(bus, Event("data", Head(out_fifo)))
            /\ UNCHANGED timer
       ELSE UNCHANGED <<out_fifo, data, fsm, timer, bus>>
    /\ UNCHANGED <<cmd, e_o, d_o, di, in_fifo, host>>
    /\ UNCHANGED xcvars

\* Mutant: the low nibble is presented first.
WriteNibbleLowFirst(m, byte) == IF m = 1 THEN byte % 16 ELSE byte \div 16

\* data[4:] when msb, data[:4] otherwise
WriteNibble(m, byte) == IF m = 1 THEN byte \div 16 ELSE byte % 16

fsm_WRITE ==
    /\ fsm = "WRITE"
    /\ IF timer = 0
       THEN /\ e_o' = 1
            /\ d_o' = WriteNibble(msb, data)
            /\ timer' = e_pulse_cyc
            /\ fsm' = "WRITE-HOLD"
            /\ bus' = IF e_o = 0 THEN Append(bus, Event("E", WriteNibble(msb, data)))
                              ELSE bus
       ELSE /\ timer' = timer - 1
            /\ UNCHANGED <<e_o, d_o, fsm, bus>>
    /\ UNCHANGED <<cmd, data, msb, rs_o, rw_o, di, out_fifo, in_fifo, host>>
    /\ UNCHANGED xcvars

\* Mutant: E is left high at the end of the pulse.
fsm_WRITE_HOLD_high ==
    /\ fsm = "WRITE-HOLD"
    /\ IF timer = 0
       THEN /\ msb' = 1 - msb
            /\ timer' = e_wait_cyc
            /\ fsm' = IF msb = 1 THEN "WRITE" ELSE "WAIT"
       ELSE /\ timer' = timer - 1
            /\ UNCHANGED <<msb, fsm>>
    /\ UNCHANGED <<cmd, data, rs_o, rw_o, e_o, d_o, di, out_fifo, in_fifo, host, bus>>
    /\ UNCHANGED xcvars

fsm_WRITE_HOLD ==
    /\ fsm = "WRITE-HOLD"
    /\ IF timer = 0
       THEN /\ e_o' = 0
            /\ msb' = 1 - msb
            /\ timer' = e_wait_cyc
            /\ fsm' = IF msb = 1 THEN "WRITE" ELSE "WAIT"
       ELSE /\ timer' = timer - 1
            /\ UNCHANGED <<e_o, msb, fsm>>
    /\ UNCHANGED <<cmd, data, rs_o, rw_o, d_o, di, out_fifo, in_fifo, host, bus>>
    /\ UNCHANGED xcvars

fsm_READ_SETUP ==
    /\ fsm = "READ-SETUP"
    /\ IF timer = 0
       THEN /\ e_o' = 1
            /\ timer' = e_pulse_cyc
            /\ fsm' = "READ"
            /\ bus' = IF e_o = 0 THEN Append(bus, Event("E", d_o)) ELSE bus
       ELSE /\ timer' = timer - 1
            /\ UNCHANGED <<e_o, fsm, bus>>
    /\ UNCHANGED <<cmd, data, msb, rs_o, rw_o, d_o, di, out_fifo, in_fifo, host>>
    /\ UNCHANGED xcvars

fsm_READ ==
    /\ fsm = "READ"
    /\ IF timer = 0
       THEN IF ~BitSet(cmd, XFER_BIT_DATA) /\ msb = 1 /\ BitSet(di, 8)
            THEN \* BF=1, wait until it goes low
                 UNCHANGED <<e_o, msb, timer, data, fsm, bus>>
            ELSE /\ e_o' = 0
                 /\ msb' = 1 - msb
                 /\ timer' = e_wait_cyc
                 /\ bus' = Append(bus, Event("sample", di))
                 /\ IF msb = 1
                    THEN /\ data' = 16 * di + (data % 16)
                         /\ fsm' = "READ-SETUP"
                    ELSE /\ data' = 16 * (data \div 16) + di
                         /\ fsm' = "READ-PROCESS"
       ELSE /\ timer' = timer - 1
            /\ UNCHANGED <<e_o, msb, data, fsm, bus>>
    /\ UNCHANGED <<cmd, rs_o, rw_o, d_o, di, out_fifo, in_fifo, host>>
    /\ UNCHANGED xcvars

\* Mutant: the byte is written to in_fifo whatever the command.
fsm_READ_PROCESS_any ==
    /\ fsm = "READ-PROCESS"
    /\ IF Len(in_fifo) < FifoDepth
       THEN /\ in_fifo' = Append(in_fifo, data)
            /\ fsm' = "WAIT"
            /\ bus' = Append(bus, Event("in_fifo", data))
       ELSE UNCHANGED <<in_fifo, fsm, bus>>
    /\ UNCHANGED <<timer, cmd, data, msb, rs_o, rw_o, e_o, d_o, di, out_fifo, host>>
    /\ UNCHANGED xcvars

fsm_READ_PROCESS ==
    /\ fsm = "READ-PROCESS"
    /\ IF BitSet(cmd, XFER_BIT_DATA)
       THEN IF Len(in_fifo) < FifoDepth
            THEN /\ in_fifo' = Append(in_fifo, data)
                 /\ fsm' = "WAIT"
                 /\ bus' = Append(bus, Event("in_fifo", data))
            ELSE UNCHANGED <<in_fifo, fsm, bus>>
       ELSE \* done reading status register, ignore it and continue
            /\ fsm' = "WAIT"
            /\ UNCHANGED <<in_fifo, bus>>
    /\ UNCHANGED <<timer, cmd, data, msb, rs_o, rw_o, e_o, d_o, di, out_fifo, host>>
    /\ UNCHANGED xcvars

\* Mutant: the timer is reloaded when it runs out.
fsm_WAIT_reload ==
    /\ fsm = "WAIT"
    /\ timer' = IF timer = 0 THEN e_wait_cyc ELSE timer - 1
    /\ UNCHANGED <<fsm, cmd, data, msb, rs_o, rw_o, e_o, d_o, di, out_fifo, in_fifo, host,
                   bus>>
    /\ UNCHANGED xcvars

fsm_WAIT ==
    /\ fsm = "WAIT"
    /\ IF timer = 0
       THEN fsm' = "IDLE" /\ UNCHANGED timer
       ELSE timer' = timer - 1 /\ UNCHANGED fsm
    /\ UNCHANGED <<cmd, data, msb, rs_o, rw_o, e_o, d_o, di, out_fifo, in_fifo, host, bus>>
    /\ UNCHANGED xcvars

\* One clock cycle.
Tick ==
    \/ fsm_IDLE
    \/ fsm_COMMAND
    \/ fsm_WRITE
    \/ fsm_WRITE_HOLD
    \/ fsm_READ_SETUP
    \/ fsm_READ
    \/ fsm_READ_PROCESS
    \/ fsm_WAIT

\* The host side of the FIFOs: port.write() of the next byte, and a read of
\* in_fifo.
host_write ==
    /\ host # <<>>
    /\ Len(out_fifo) < FifoDepth
    /\ out_fifo' = Append(out_fifo, Head(host))
    /\ host' = Tail(host)
    /\ UNCHANGED <<fsm, timer, cmd, data, msb, rs_o, rw_o, e_o, d_o, di, in_fifo, bus>>
    /\ UNCHANGED xcvars

host_read ==
    /\ in_fifo # <<>>
    /\ in_fifo' = Tail(in_fifo)
    /\ UNCHANGED <<fsm, timer, cmd, data, msb, rs_o, rw_o, e_o, d_o, di, out_fifo, host, bus>>
    /\ UNCHANGED xcvars

\* Nibbles the display drives on D4..D7: bit 3 is the busy flag of a status
\* read.
DiValues == {0, 5, 8, 13}

\* The display drives the data pins while it is read; the busy flag falls
\* while E is high and rises only once E is low again (header, lines 4-6).
display_drive(value) ==
    /\ fsm \in {"READ-SETUP", "READ"}
    /\ value # di
    /\ fsm = "READ" /\ BitSet(value, 8) => BitSet(di, 8)
    /\ di' = value
    /\ UNCHANGED <<fsm, timer, cmd, data, msb, rs_o, rw_o, e_o, d_o, out_fifo, in_fifo,
                   host, bus>>
    /\ UNCHANGED xcvars

\* The busy flag falls.
display_ready ==
    /\ BitSet(di, 8)
    /\ display_drive(di - 8)

----------------------------------------------------------------------------
(* Initial states *)

\* device.bitstream_words of the modelled part
BitstreamWords == BLOCK_WORDS * NumBlocks

\* A bitstream of n words whose blocks differ from each other.
Base(n) == [i \in 1..n |-> ((i - 1) + ((i - 1) \div BLOCK_WORDS)) % (WordMax + 1)]

Bump(w) == (w + 1) % (WordMax + 1)

\* Positions (1-based) at which the bitstreams of the model vary: the ends of
\* the bitstream and of its first block, and word 42.
MarkPos(n) == {1, 2, BLOCK_WORDS, BLOCK_WORDS + 1, n - 1, n, 43} \cap (1..n)

Files(n) == {Base(n)} \cup
            {[Base(n) EXCEPT ![p] = v] : p \in MarkPos(n), v \in Word}

\* The word index held at device address a, or -1 for an unallocated address.
DevWord(a) ==
    IF a % 8 < GROUP_WORDS /\ (a % 32) \div 8 < 3
    THEN BLOCK_WORDS * (a \div 32) + GROUP_WORDS * ((a % 32) \div 8) + (a % 8)
    ELSE -1

\* The device memory that holds the bitstream ws.
MemOf(ws) == [a \in DevAddrs |->
                 IF DevWord(a) >= 0 /\ DevWord(a) < Len(ws) THEN ws[DevWord(a) + 1] ELSE 0]

Erased == [a \in DevAddrs |-> 0]

Memories == {Erased, MemOf(Base(BitstreamWords))} \cup
            {MemOf([Base(BitstreamWords) EXCEPT ![p] = Bump(@)]) :
                p \in {2, BitstreamWords}}

InitCommon ==
    /\ pc \in {"identify", "rt_program", "call"}
    /\ ret = <<>>
    /\ exc = NoError
    /\ trace = <<>>
    /\ outer = Arguments(0, 0, <<>>, FALSE)
    /\ frame = NewFrame(0, 0, <<>>)
    /\ result = <<>>
    /\ device = NoDevice
    /\ words = <<>>
    /\ out_file = <<>>
    /\ status = Reg(0, 0, 0, 0)
    /\ warns = 0
    /\ invalid = 0

Operations == {"read-bit", "program-bit", "verify-bit", "erase", "none"}

\* One run of `glasgow run jtag-xc9500 [--slow] OPERATION [BIT-FILE]`.
Init ==
    /\ InitCommon
    /\ LcdIdle
    /\ pc = "identify"
    /\ caller = "interact"
    /\ flaky \in BOOLEAN
    /\ \E operation \in Operations, slow \in BOOLEAN :
          \E bit_file \in
                IF operation \in {"program-bit", "verify-bit"}
                THEN IF flaky
                     THEN {Base(BitstreamWords), Base(BitstreamWords - 1)}
                     ELSE Files(BitstreamWords) \cup
                          {Base(BitstreamWords - 1), Base(BitstreamWords + 1), <<>>}
                ELSE {<<>>} :
             args = [operation |-> operation, slow |-> slow, bit_file |-> bit_file]
    /\ \E mem \in IF args.operation = "program-bit" \/ flaky
                  THEN {Erased} ELSE Memories,
          idcode \in {KnownId, OtherId} :
             /\ idcode = OtherId => args.bit_file \in {<<>>, Base(BitstreamWords)}
             /\ dev = DevInit(mem, idcode)
             /\ pass = [mem0 |-> mem, results |-> <<>>]

InitRT ==
    /\ InitCommon
    /\ LcdIdle
    /\ pc = "rt_program"
    /\ caller = "roundtrip"
    /\ flaky = FALSE
    /\ \E n \in 0..NumBlocks :
          \E bit_file \in Files(BLOCK_WORDS * n) :
             args = [operation |-> "roundtrip", slow |-> FALSE, bit_file |-> bit_file]
    /\ \E mem \in {MemOf([i \in 1..BitstreamWords |-> Bump(Base(BitstreamWords)[i])])} :
          /\ dev = DevInit(mem, KnownId)
          /\ pass = [mem0 |-> mem, results |-> <<>>]

----------------------------------------------------------------------------
(* Next-state relations *)

\* interact never calls _fpgm with an empty word list (device.bitstream_words > 0),
\* so fpgm_prime is a step of the round trip driver's runs only.
Next ==
    \/ \E ok \in Outcomes : identify_write_ir(ok)
    \/ \E ok \in Outcomes : identify_read_dr(ok)
    \/ \E ok \in Outcomes : read_usercode_write_ir(ok)
    \/ \E ok \in Outcomes : read_usercode_read_dr(ok)
    \/ interact_try
    \/ \E ok \in Outcomes : programming_enable(ok)
    \/ interact_operation
    \/ read_bit_write
    \/ verify_compare
    \/ \E ok \in Outcomes : programming_disable(ok)
    \/ \E ok \in Outcomes : fvfy_write_ir(ok)
    \/ \E ok \in Outcomes : fvfy_write_dr(ok)
    \/ \E ok \in Outcomes : fvfy_exchange_dr(ok)
    \/ fvfy_return
    \/ \E ok \in Outcomes : fvfyi_write_ir(ok)
    \/ \E ok \in Outcomes, valid \in Flags : fvfyi_read_dr(ok, valid)
    \/ fvfyi_return
    \/ read
    \/ read_fvfyi
    \/ \E ok \in Outcomes : fpgm_write_ir(ok)
    \/ \E ok \in Outcomes : fpgm_write_dr(ok)
    \/ \E ok \in Outcomes : fpgm_run_test_idle(ok)
    \/ \E ok \in Outcomes, valid \in Flags, strobe \in Flags : fpgm_exchange_dr(ok, valid, strobe)
    \/ fpgm_return
    \/ \E ok \in Outcomes : fpgmi_write_ir(ok)
    \/ \E ok \in Outcomes : fpgmi_write_dr(ok)
    \/ \E ok \in Outcomes : fpgmi_run_test_idle(ok)
    \/ \E ok \in Outcomes, valid \in Flags, strobe \in Flags : fpgmi_exchange_dr(ok, valid, strobe)
    \/ fpgmi_return
    \/ program
    \/ program_fpgmi
    \/ \E ok \in Outcomes : bulk_erase_write_ir(ok)
    \/ \E ok \in Outcomes : bulk_erase_write_dr(ok)
    \/ \E ok \in Outcomes : bulk_erase_run_test_idle(ok)
    \/ \E ok \in Outcomes, valid \in Flags, strobe \in Flags : bulk_erase_read_dr(ok, valid, strobe)

Spec == Init /\ [][Next]_vars

NextRT ==
    \/ fvfy_write_ir(TRUE)
    \/ fvfy_write_dr(TRUE)
    \/ fvfy_exchange_dr(TRUE)
    \/ fvfy_return
    \/ fvfyi_write_ir(TRUE)
    \/ \E valid \in Flags : fvfyi_read_dr(TRUE, valid)
    \/ fvfyi_return
    \/ read
    \/ read_fvfyi
    \/ fpgm_write_ir(TRUE)
    \/ fpgm_write_dr(TRUE)
    \/ fpgm_run_test_idle(TRUE)
    \/ \E valid \in Flags, strobe \in Flags : fpgm_exchange_dr(TRUE, valid, strobe)
    \/ fpgm_prime(TRUE)
    \/ fpgm_return
    \/ fpgmi_write_ir(TRUE)
    \/ fpgmi_write_dr(TRUE)
    \/ fpgmi_run_test_idle(TRUE)
    \/ \E valid \in Flags, strobe \in Flags : fpgmi_exchange_dr(TRUE, valid, strobe)
    \/ fpgmi_return
    \/ program
    \/ program_fpgmi
    \/ rt_program
    \/ rt_read
    \/ rt_end

SpecRT == InitRT /\ [][NextRT]_vars

----------------------------------------------------------------------------
(* Direct calls: one call of a function of the module with given arguments. *)

InitCall ==
    /\ InitCommon
    /\ LcdIdle
    /\ pc = "call"
    /\ caller = "direct"
    /\ flaky = FALSE

call_jed_to_device_address ==
    /\ pc = "call"
    /\ args.operation = "jed_to_device_address"
    /\ result' = <<jed_to_device_address(args.address)>>
    /\ pc' = "done"
    /\ UNCHANGED <<args, caller, flaky, dev, ret, exc, trace, outer, frame, device,
                   words, out_file, status, warns, invalid, pass, lcdvars>>

call_bitstream_to_device_address ==
    /\ pc = "call"
    /\ args.operation = "bitstream_to_device_address"
    /\ result' = <<bitstream_to_device_address(args.address)>>
    /\ pc' = "done"
    /\ UNCHANGED <<args, caller, flaky, dev, ret, exc, trace, outer, frame, device,
                   words, out_file, status, warns, invalid, pass, lcdvars>>

\* Every fuse address and every word address of the XC9572XL bitstream.
InitTranslate ==
    /\ InitCall
    /\ \/ \E jed_address \in 0..(XC9572XL_FUSES - 1) :
             args = [operation |-> "jed_to_device_address", address |-> jed_address]
       \/ \E word_address \in 0..(XC9572XL_WORDS - 1) :
             args = [operation |-> "bitstream_to_device_address", address |-> word_address]
    /\ dev = DevInit(Erased, KnownId)
    /\ pass = [mem0 |-> Erased, results |-> <<>>]

NextTranslate ==
    \/ call_jed_to_device_address
    \/ call_bitstream_to_device_address

SpecTranslate == InitTranslate /\ [][NextTranslate]_vars

\* iface.program(address, words, fast)
call_program ==
    /\ pc = "call"
    /\ args.operation = "program"
    /\ outer' = Arguments(args.address, 0, args.words, args.fast)
    /\ pc' = "program"
    /\ ret' = <<"done">>
    /\ UNCHANGED <<args, caller, flaky, dev, exc, trace, frame, result, device, words,
                   out_file, status, warns, invalid, pass, lcdvars>>

\* Word addresses at which the direct calls start.
CallAddresses == {0, 1, BLOCK_WORDS - 1} \cup
                 {BLOCK_WORDS * b : b \in 0..(NumBlocks - 1)}

\* program() on an erased device, with any start address of CallAddresses and
\* a word list of any length that fits the device.
InitProgram ==
    /\ InitCall
    /\ \E address \in CallAddresses, fast \in BOOLEAN :
          \E n \in 0..(BitstreamWords - address) :
             \E ws \in {Base(n), [i \in 1..n |-> Bump(Base(n)[i])]} :
                args = [operation |-> "program", address |-> address,
                        words |-> ws, fast |-> fast]
    /\ dev = DevInit(Erased, KnownId)
    /\ pass = [mem0 |-> Erased, results |-> <<>>]

NextProgram ==
    \/ call_program
    \/ program
    \/ program_fpgmi
    \/ fpgm_write_ir(TRUE)
    \/ fpgm_write_dr(TRUE)
    \/ fpgm_run_test_idle(TRUE)
    \/ \E valid \in Flags, strobe \in Flags : fpgm_exchange_dr(TRUE, valid, strobe)
    \/ fpgm_prime(TRUE)
    \/ fpgm_return
    \/ fpgmi_write_ir(TRUE)
    \/ fpgmi_write_dr(TRUE)
    \/ fpgmi_run_test_idle(TRUE)
    \/ \E valid \in Flags, strobe \in Flags : fpgmi_exchange_dr(TRUE, valid, strobe)
    \/ fpgmi_return

SpecProgram == InitProgram /\ [][NextProgram]_vars

\* iface.read(address, count, fast)
call_read ==
    /\ pc = "call"
    /\ args.operation = "read"
    /\ outer' = Arguments(args.address, args.count, <<>>, args.fast)
    /\ pc' = "read"
    /\ ret' = <<"done">>
    /\ UNCHANGED <<args, caller, flaky, dev, exc, trace, frame, result, device, words,
                   out_file, status, warns, invalid, pass, lcdvars>>

\* Word counts of the direct reads from `address`.
CallCounts(address) ==
    {0, 1, 2, BLOCK_WORDS, BLOCK_WORDS + 1, BitstreamWords - address}
        \cap (0..(BitstreamWords - address))

\* read() of a programmed device, from any start address of CallAddresses.
InitRead ==
    /\ InitCall
    /\ \E address \in CallAddresses, fast \in BOOLEAN :
          \E count \in CallCounts(address) :
             args = [operation |-> "read", address |-> address,
                     count |-> count, fast |-> fast]
    /\ \E mem \in Memories \ {Erased} :
          /\ dev = DevInit(mem, KnownId)
          /\ pass = [mem0 |-> mem, results |-> <<>>]

NextRead ==
    \/ call_read
    \/ read
    \/ read_fvfyi
    \/ fvfy_write_ir(TRUE)
    \/ fvfy_write_dr(TRUE)
    \/ fvfy_exchange_dr(TRUE)
    \/ fvfy_return
    \/ fvfyi_write_ir(TRUE)
    \/ \E valid \in Flags : fvfyi_read_dr(TRUE, valid)
    \/ fvfyi_return

SpecRead == InitRead /\ [][NextRead]_vars

\* The record keeps at most MaxInvalid of the answers with valid=0 of a poll:
\* an earlier one is dropped from `trace` and from `invalid`, so that a device
\* may go on answering valid=0 without end (every read_dr(34) of the record is
\* the same call).
forget_invalid ==
    /\ pc = "_fvfyi_loop"
    /\ frame.offset < frame.count
    /\ invalid > 0
    /\ invalid = MaxInvalid
    /\ trace[Len(trace)] = read_dr(34)
    /\ trace' = SubSeq(trace, 1, Len(trace) - 1)
    /\ invalid' = invalid - 1
    /\ UNCHANGED <<args, caller, flaky, dev, pc, ret, exc, outer, frame, result, device,
                   words, out_file, status, warns, pass, lcdvars>>

NextReadForever ==
    \/ call_read
    \/ read
    \/ read_fvfyi
    \/ fvfy_write_ir(TRUE)
    \/ fvfy_write_dr(TRUE)
    \/ fvfy_exchange_dr(TRUE)
    \/ fvfy_return
    \/ fvfyi_write_ir(TRUE)
    \/ \E valid \in Flags : fvfyi_read_dr(TRUE, valid)
    \/ fvfyi_return
    \/ forget_invalid

\* The coroutine runs whenever it can take a step (each transport call
\* returns), and a device that is polled without end eventually answers
\* valid=1.
SpecReadFair ==
    /\ InitRead
    /\ [][NextReadForever]_vars
    /\ WF_vars(NextRead)
    /\ WF_vars(fvfyi_read_dr(TRUE, 1))

\* The same runs without the assumption on the device.
SpecReadForever ==
    /\ InitRead
    /\ [][NextReadForever]_vars
    /\ WF_vars(NextRead)

----------------------------------------------------------------------------
(* JTAGXC9500AppletTool.run: read-bit-usercode *)

\* Mutant: the half-nibble is taken from bits 0 and 1.
HalfNibbleLow(usercode_word) == usercode_word % 4

\* (usercode_word >> 6) & 0b11
HalfNibble(usercode_word) == (usercode_word \div 64) % 4

\* A USERCODE value is kept as its two 16-bit halves, hi * 2^16 + lo.
\* (usercode << 2) | half_nibble
ShiftIn(usercode, half_nibble) ==
    [hi |-> usercode.hi * 4 + (usercode.lo \div 16384),
     lo |-> (usercode.lo % 16384) * 4 + half_nibble]

\* The words at usercode_low .. usercode_low + 7, then usercode_high ..
\* usercode_high + 7 (word index from 0).
usercode_words(ws, d) ==
    [i \in 1..16 |-> IF i <= 8 THEN ws[d.usercode_low + i]
                                ELSE ws[d.usercode_high + (i - 8)]]

\* usercode after the first n words of uws have been shifted in.
RECURSIVE UsercodeAfter(_, _)
UsercodeAfter(uws, n) ==
    IF n = 0 THEN [hi |-> 0, lo |-> 0]
    ELSE ShiftIn(UsercodeAfter(uws, n - 1), HalfNibble(uws[n]))

tool_run ==
    /\ pc = "call"
    /\ args.operation = "read-bit-usercode"
    /\ words' = args.bit_file
    /\ IF Len(args.bit_file) # args.device.bitstream_words
       THEN /\ Throw(Error("incorrect .bit file size"))
            /\ UNCHANGED result
       ELSE /\ result' = UsercodeAfter(usercode_words(args.bit_file, args.device), 16)
            /\ pc' = "done"
            /\ UNCHANGED <<ret, exc>>
    /\ UNCHANGED <<args, caller, flaky, dev, trace, outer, frame, device, out_file,
                   status, warns, invalid, pass, lcdvars>>

\* Descriptors given to the tool: the USERCODE words of the XC9572XL, and a
\* device whose high field comes first in the bitstream.
ToolDevices ==
    {[name |-> "XC9572XL", bitstream_words |-> 120, usercode_low |-> 90,
      usercode_high |-> 105],
     [name |-> "swapped", bitstream_words |-> 20, usercode_low |-> 10,
      usercode_high |-> 1]}

\* Values of the words of a .bit file given to the tool.
ToolWordValues == {0, 63, 64, 128, 129, 192, 255, 384, 2147483647}

\* The word positions (from 1) of a file that the model varies: the 16 USERCODE
\* words and the words next to each field.
ToolPositions(d) ==
    (d.usercode_low..(d.usercode_low + 9)) \cup (d.usercode_high..(d.usercode_high + 9))

\* .bit files of the right size whose words are all `bg` but one, and a file
\* that is one word short.
InitTool ==
    /\ InitCall
    /\ \E d \in ToolDevices, bg \in {0, 63, 255} :
          \E bit_file \in
                {[i \in 1..d.bitstream_words |-> IF i = p THEN v ELSE bg] :
                    p \in ToolPositions(d), v \in ToolWordValues}
                \cup {[i \in 1..(d.bitstream_words - 1) |-> bg]} :
             args = [operation |-> "read-bit-usercode", device |-> d,
                     bit_file |-> bit_file]
    /\ dev = DevInit(Erased, KnownId)
    /\ pass = [mem0 |-> Erased, results |-> <<>>]

NextTool == tool_run

SpecTool == InitTool /\ [][NextTool]_vars

----------------------------------------------------------------------------
(* The HD44780 subtarget fed with the bytes of `host` *)

XFER_COMMAND == 0
XFER_POLL == XFER_BIT_READ
XFER_WRITE == XFER_BIT_DATA
XFER_READ == XFER_BIT_DATA + XFER_BIT_READ
XFER_INIT == XFER_BIT_HALF
XFER_WAIT == XFER_BIT_WAIT

\* Data bytes written by the model's host: both nibbles differ.
LcdBytes == {165, 60}

\* Commands that take a data byte from out_fifo.
WriteCommands == {XFER_COMMAND, XFER_WRITE, XFER_INIT, XFER_INIT + XFER_BIT_DATA}

\* HD44780Applet.run: init(command, poll), cmd(command), data(bytes)
applet_init(command, poll) == <<XFER_INIT, command, IF poll THEN XFER_POLL ELSE XFER_WAIT>>
applet_cmd(command) == <<XFER_COMMAND, command, XFER_POLL>>
applet_data(byte) == <<XFER_WRITE, byte, XFER_POLL>>

\* What the host writes, with every command followed by what it needs.
CompleteScripts ==
    {<<c, b>> : c \in WriteCommands, b \in LcdBytes}
    \cup {<<c>> : c \in {XFER_POLL, XFER_READ, XFER_POLL + XFER_BIT_HALF,
                         XFER_READ + XFER_BIT_HALF}}
    \cup {applet_init(3, FALSE), applet_init(2, TRUE)}
    \cup {applet_cmd(b) : b \in LcdBytes}
    \cup {applet_data(b) : b \in LcdBytes}
    \cup {<<XFER_READ, XFER_READ>>, <<XFER_READ, XFER_READ, XFER_WRITE, 165>>}
    \cup {<<XFER_WRITE, 165, XFER_READ + XFER_BIT_HALF>>}

\* Write commands that never get their data byte, and commands with
\* XFER_BIT_WAIT, alone and followed by further bytes.
OtherScripts ==
    {<<c>> : c \in WriteCommands}
    \cup {<<XFER_WAIT>>, <<15>>, <<XFER_WAIT, XFER_COMMAND, 165>>}

LcdScripts == CompleteScripts \cup OtherScripts

InitLcdWith(scripts) ==
    /\ InitCommon
    /\ pc = "call"
    /\ caller = "direct"
    /\ flaky = FALSE
    /\ args = [operation |-> "hd44780"]
    /\ dev = DevInit(Erased, KnownId)
    /\ pass = [mem0 |-> Erased, results |-> <<>>]
    /\ LcdReset
    /\ host \in scripts

InitLcd == InitLcdWith(LcdScripts)

NextLcd ==
    \/ fsm_IDLE
    \/ fsm_COMMAND
    \/ fsm_WRITE
    \/ fsm_WRITE_HOLD
    \/ fsm_READ_SETUP
    \/ fsm_READ
    \/ fsm_READ_PROCESS
    \/ fsm_WAIT
    \/ host_write
    \/ host_read
    \/ \E value \in DiValues : display_drive(value)

SpecLcd == InitLcd /\ [][NextLcd]_vars

\* The clock runs.
SpecLcdClock == SpecLcd /\ WF_vars(Tick)

\* The clock runs, the host writes the data byte of every write command and
\* reads in_fifo, and the busy flag falls.
InitLcdFair == InitLcdWith(CompleteScripts)

SpecLcdFair ==
    /\ InitLcdFair
    /\ [][NextLcd]_vars
    /\ WF_vars(Tick)
    /\ WF_vars(host_write)
    /\ WF_vars(host_read)
    /\ WF_vars(display_ready)

----------------------------------------------------------------------------
(* Reading the trace *)

Destructive == {"FBULK", "FPGM", "FPGMI", "FVFY", "FVFYI"}

Selected(ir) == {i \in 1..Len(trace) : trace[i] = write_ir(ir)}

Max(S) == CHOOSE x \in S : \A y \in S : y <= x
Min(S) == CHOOSE x \in S : \A y \in S : x <= y

\* The instruction selected when call i is issued (call i included), "" if none.
IrAt(i) ==
    LET S == {j \in 1..i : trace[j].op = "write_ir"}
    IN  IF S = {} THEN "" ELSE trace[Max(S)].ir

Prefix(seq, n) == SubSeq(seq, 1, IF n < Len(seq) THEN n ELSE Len(seq))

IsPrefix(p, seq) == Len(p) <= Len(seq) /\ p = SubSeq(seq, 1, Len(p))

\* The calls of identify() and read_usercode(), and of programming_enable().
Preamble == <<write_ir("IDCODE"), read_dr(32), write_ir("USERCODE"), read_dr(32)>>
Enabled == Preamble \o <<write_ir("ISPEN")>>

KnownDevice == dev.idcode = KnownId
RightSize == Len(args.bit_file) = BLOCK_WORDS * NumBlocks

----------------------------------------------------------------------------
(* C1 *)

\* C1: once programming_enable has been called (the ISPEN select was issued,
\* whether or not it succeeded), the run does not stop before it is done, and
\* when it is done the ISPEX select of programming_disable is the last call
\* issued to the transport, whatever raised in between.
C1_DisableIsLast ==
    Selected("ISPEN") # {} =>
        /\ pc # "done" => ENABLED Next
        /\ pc = "done" => trace[Len(trace)] = write_ir("ISPEX")

C1_Witness ==
    /\ pc = "done"
    /\ Selected("ISPEN") # {}
    /\ exc.kind \in {"bulk erase failed", "bitstream verification failed", "TransportError"}
    /\ Len(trace) > 7
    /\ trace[Len(trace)] = write_ir("ISPEX")

----------------------------------------------------------------------------
(* C2 *)

\* C2: every select of FBULK, FPGM, FPGMI, FVFY or FVFYI, and every call
\* issued while one of them is the selected instruction, comes after a select
\* of ISPEN and before any select of ISPEX.
C2_InsideBracket ==
    \A i \in 1..Len(trace) :
        IrAt(i) \in Destructive =>
            /\ \E j \in 1..(i - 1) : trace[j] = write_ir("ISPEN")
            /\ \A j \in 1..(i - 1) : trace[j] # write_ir("ISPEX")

C2_Witness ==
    /\ pc = "done"
    /\ exc = NoError
    /\ Selected("FPGMI") # {}
    /\ \E i \in 1..Len(trace) : trace[i].op = "run_test_idle" /\ IrAt(i) = "FPGMI"

----------------------------------------------------------------------------
(* C3 *)

\* C3: an ISPEX select is issued only after an ISPEN select of the same run,
\* and a finished run has issued as many ISPEX selects as ISPEN selects.
C3_ScopedPair ==
    /\ \A i \in Selected("ISPEX") : \E j \in Selected("ISPEN") : j < i
    /\ pc = "done" => Cardinality(Selected("ISPEX")) = Cardinality(Selected("ISPEN"))

----------------------------------------------------------------------------
(* C4 *)

WrongSizeRun ==
    /\ args.operation \in {"program-bit", "verify-bit"}
    /\ KnownDevice
    /\ ~RightSize

\* C4 as claimed: a run that ends in the size-mismatch error has issued no
\* call to the transport at all.
C4_NoTapOperation ==
    exc.kind = "incorrect .bit file size" => trace = <<>>

\* C4 as amended: a program-bit or verify-bit run on a file of the wrong size
\* never issues ISPEN, an erase/program/verify select, a DR write or exchange
\* or an idle run; it is rejected with the size error right after the
\* USERCODE read, and the only call after the rejection is the ISPEX select.
C4_RejectedBeforeEnable ==
    /\ WrongSizeRun =>
          /\ \A i \in 1..Len(trace) :
                trace[i] \in {write_ir("IDCODE"), write_ir("USERCODE"),
                              read_dr(32), write_ir("ISPEX")}
          /\ pc = "done" => exc.kind \in {"incorrect .bit file size", "TransportError"}
          /\ pc = "done" /\ ~flaky => exc.kind = "incorrect .bit file size"
    /\ exc.kind = "incorrect .bit file size" =>
          /\ WrongSizeRun
          /\ pc \in {"finally", "done"}
          /\ trace = IF pc = "done" THEN Preamble \o <<write_ir("ISPEX")>> ELSE Preamble

C4_Witness ==
    /\ pc = "done"
    /\ exc.kind = "incorrect .bit file size"
    /\ Len(args.bit_file) = BLOCK_WORDS * NumBlocks - 1
    /\ Len(trace) = 5

----------------------------------------------------------------------------
(* C5 *)

\* C5: when the database has no descriptor for the IDCODE read, the run ends
\* with the unknown-device error right after the IDCODE read: the only calls
\* issued are the IDCODE select and the 32-bit read.
C5_UnknownDeviceStops ==
    dev.idcode = OtherId =>
        /\ IsPrefix(trace, <<write_ir("IDCODE"), read_dr(32)>>)
        /\ pc \in {"identify", "identify_read_dr", "done"}
        /\ pc = "done" =>
              exc.kind \in {"cannot operate on unknown device", "TransportError"}
        /\ pc = "done" /\ ~flaky =>
              exc.kind = "cannot operate on unknown device" /\ Len(trace) = 2

C5_Witness ==
    /\ pc = "done"
    /\ dev.idcode = OtherId
    /\ exc.kind = "cannot operate on unknown device"
    /\ trace = <<write_ir("IDCODE"), read_dr(32)>>

----------------------------------------------------------------------------
(* C6 *)

\* The word the device holds at word address w.
DeviceWord(w) == dev.mem[CHOOSE a \in DevAddrs : DevWord(a) = w]

Mismatches ==
    {k \in 0..(BLOCK_WORDS * NumBlocks - 1) : DeviceWord(k) # args.bit_file[k + 1]}

\* C6: a verify-bit run that is not cut short by a transport failure has read
\* every word of the device, fails if and only if some device word differs
\* from the word of the file at the same offset, and then reports the smallest
\* such offset.
C6_VerifyFirstMismatch ==
    /\ args.operation = "verify-bit"
    /\ KnownDevice /\ RightSize
    /\ pc = "done"
    /\ exc.kind # "TransportError"
    => /\ result = [k \in 1..(BLOCK_WORDS * NumBlocks) |-> DeviceWord(k - 1)]
       /\ IF Mismatches = {}
          THEN exc = NoError
          ELSE exc = [kind |-> "bitstream verification failed",
                      offset |-> Min(Mismatches)]

C6_Witness ==
    /\ args.operation = "verify-bit"
    /\ KnownDevice /\ RightSize
    /\ pc = "done"
    /\ Mismatches = {42}
    /\ exc = [kind |-> "bitstream verification failed", offset |-> 42]

----------------------------------------------------------------------------
(* C7 *)

EraseCalls ==
    <<write_ir("FBULK"), write_dr(18, Reg(1, 1, 65535, 0)), run_test_idle(200000),
      read_dr(18)>>

\* The calls issued after programming_enable(), without the closing ISPEX select.
Body ==
    IF pc = "done" THEN SubSeq(trace, Len(Enabled) + 1, Len(trace) - 1)
    ELSE SubSeq(trace, Len(Enabled) + 1, Len(trace))

\* C7: bulk_erase issues, in this order and nothing else, the FBULK select, one
\* 18-bit write of ISADDRESS(valid=1, strobe=1, address=0xFFFF), one run of
\* 200,000 idle cycles and one 18-bit read; it succeeds if and only if the
\* status read back has valid=1 and strobe=0, and raises otherwise.
C7_BulkErase ==
    args.operation = "erase" /\ Len(trace) > Len(Enabled) =>
        /\ IsPrefix(Body, EraseCalls)
        /\ pc # "done" /\ Body = EraseCalls => pc = "finally"
        /\ pc \in {"finally", "done"} /\ Body = EraseCalls /\ exc.kind # "TransportError" =>
              /\ exc = NoError <=> (status.valid = 1 /\ status.strobe = 0)
              /\ exc # NoError => exc.kind = "bulk erase failed"

C7_Witness ==
    /\ args.operation = "erase"
    /\ pc = "done"
    /\ Body = EraseCalls
    /\ status.valid = 1 /\ status.strobe = 1
    /\ exc.kind = "bulk erase failed"

----------------------------------------------------------------------------
(* C8 *)

\* The calls of programming word `offset` of ws: the word write and, at a
\* block boundary, the wait and the probe.
WordCalls(fpgmi, address, ws, offset) ==
    LET strobe == IF offset % 15 = 14 THEN 1 ELSE 0
        a == bitstream_to_device_address(address + offset)
        w == IF fpgmi THEN write_dr(34, Reg(1, strobe, 0, ws[offset + 1]))
             ELSE write_dr(50, Reg(1, strobe, a, ws[offset + 1]))
        probe == IF fpgmi THEN exchange_dr(34, Reg(0, 0, 0, 0))
                 ELSE exchange_dr(50, Reg(0, 0, a, 0))
    IN  IF strobe = 1 THEN <<w, run_test_idle(20000), probe>> ELSE <<w>>

RECURSIVE WordsCalls(_, _, _, _)
WordsCalls(fpgmi, address, ws, offset) ==
    IF offset >= Len(ws) THEN <<>>
    ELSE WordCalls(fpgmi, address, ws, offset) \o WordsCalls(fpgmi, address, ws, offset + 1)

\* The calls of program(0, ws, fast) when no transport call fails, whatever
\* the device answers to the probes; ws holds at least one block.
ProgramCalls(ws, fast) ==
    IF fast
    THEN <<write_ir("FPGM")>> \o WordsCalls(FALSE, 0, SubSeq(ws, 1, 15), 0)
         \o <<write_ir("FPGMI")>> \o WordsCalls(TRUE, 0, SubSeq(ws, 16, Len(ws)), 0)
    ELSE <<write_ir("FPGM")>> \o WordsCalls(FALSE, 0, ws, 0)

\* C8: in a program-bit run the calls issued depend on the words and the path
\* only, never on the status the device answers to the probes: the calls after
\* programming_enable() are a prefix of ProgramCalls, all of it unless a
\* transport call failed, and no status answer makes the run raise.
C8_MismatchNotFatal ==
    args.operation = "program-bit" /\ KnownDevice /\ RightSize
    /\ Len(trace) > Len(Enabled) =>
        /\ IsPrefix(Body, ProgramCalls(args.bit_file, ~args.slow))
        /\ exc.kind \in {"none", "TransportError"}
        /\ pc = "done" /\ exc = NoError => Body = ProgramCalls(args.bit_file, ~args.slow)
        /\ ~flaky => exc = NoError

C8_Witness ==
    /\ args.operation = "program-bit"
    /\ pc = "done"
    /\ exc = NoError
    /\ warns = NumBlocks
    /\ status.valid = 0
    /\ Body = ProgramCalls(args.bit_file, ~args.slow)

----------------------------------------------------------------------------
(* C9, C10: checked under SpecRT *)

\* C9: program(0, words, fast=True) followed by read(0, len(words), fast=True)
\* returns exactly words.
C9_FastRoundTrip ==
    Len(pass.results) = 2 => pass.results[2] = args.bit_file

C9_Witness ==
    /\ pc = "done"
    /\ Len(pass.results) = 2
    /\ Len(args.bit_file) = 30
    /\ pass.results[2] = args.bit_file
    /\ args.bit_file # Base(30)
    /\ invalid > 0

\* C10: for the same bitstream and the same initial device, the slow-path
\* program and read return the same word list as the fast-path program and read.
C10_FastSlowEquivalent ==
    Len(pass.results) = 2 => pass.results[1] = pass.results[2]

C10_Witness ==
    /\ pc = "done"
    /\ Len(pass.results) = 2
    /\ Len(args.bit_file) = BLOCK_WORDS * NumBlocks
    /\ pass.results[1] = pass.results[2]
    /\ pass.results[1] # [k \in 1..Len(args.bit_file) |->
                             pass.mem0[CHOOSE a \in DevAddrs : DevWord(a) = k - 1]]

----------------------------------------------------------------------------
(* C13 .. C16: checked under SpecTranslate *)

Called(operation) == pc = "done" /\ args.operation = operation

\* C13: bitstream_to_device_address is injective on [0, 1620) and strictly
\* increasing within a block.
C13_Injective ==
    Called("bitstream_to_device_address") =>
        \A other \in 0..(XC9572XL_WORDS - 1) :
            /\ other # args.address =>
                  bitstream_to_device_address(other) # result[1]
            /\ (other < args.address
                  /\ other \div BLOCK_WORDS = args.address \div BLOCK_WORDS) =>
                  bitstream_to_device_address(other) < result[1]

C13_Witness ==
    /\ Called("bitstream_to_device_address")
    /\ args.address = XC9572XL_WORDS - 1
    /\ result = <<3444>>

\* C14: for a word address in [0, 1620) the device address has neither
\* device_address % 8 >= 5 nor device_address % 32 >= 24.
C14_Allocated ==
    Called("bitstream_to_device_address") =>
        /\ ~(result[1] % 8 >= 5)
        /\ ~(result[1] % 32 >= 24)

C14_Witness ==
    /\ Called("bitstream_to_device_address")
    /\ args.address % BLOCK_WORDS = BLOCK_WORDS - 1
    /\ result[1] % 32 = 20

\* C15: for 0 <= k < 108, fuse 432*k maps to word 15*k and word 15*k maps to
\* device address 32*k.
C15_BlockBoundaries ==
    \A k \in 0..(XC9572XL_BLOCKS - 1) :
        /\ (Called("jed_to_device_address") /\ args.address = 432 * k) =>
              result = <<15 * k>>
        /\ (Called("bitstream_to_device_address") /\ args.address = 15 * k) =>
              result = <<32 * k>>

C15_Witness ==
    /\ Called("jed_to_device_address")
    /\ args.address = 432 * (XC9572XL_BLOCKS - 1)
    /\ result = <<1605>>

\* The run of fuses of a word: 32 fuses for the first 9 words of a block and
\* 24 fuses for the last 6.
RunLen(w) == IF w % 15 < 9 THEN 32 ELSE 24
RunStart(w) == 432 * (w \div 15) +
               (IF w % 15 < 9 THEN 32 * (w % 15) ELSE 288 + 24 * ((w % 15) - 9))

\* C16: jed_to_device_address is total and non-decreasing on [0, 46656), maps
\* onto exactly [0, 1620), and the fuses mapped to a word w are one contiguous
\* run of 32 fuses when w % 15 < 9 and of 24 fuses when w % 15 >= 9.
C16_FuseRuns ==
    Called("jed_to_device_address") =>
        LET f == args.address
            w == result[1]
        IN  /\ Len(result) = 1
            /\ w \in 0..(XC9572XL_WORDS - 1)
            /\ f = 0 => w = 0
            /\ f = XC9572XL_FUSES - 1 => w = XC9572XL_WORDS - 1
            /\ f + 1 < XC9572XL_FUSES =>
                  jed_to_device_address(f + 1) \in {w, w + 1}
            /\ \A g \in RunStart(w)..(RunStart(w) + RunLen(w) - 1) :
                  jed_to_device_address(g) = w
            /\ RunStart(w) > 0 => jed_to_device_address(RunStart(w) - 1) = w - 1
            /\ RunStart(w) + RunLen(w) < XC9572XL_FUSES =>
                  jed_to_device_address(RunStart(w) + RunLen(w)) = w + 1

C16_Witness ==
    /\ Called("jed_to_device_address")
    /\ args.address = XC9572XL_FUSES - 1
    /\ result = <<XC9572XL_WORDS - 1>>
    /\ RunStart(result[1]) = XC9572XL_FUSES - 24

----------------------------------------------------------------------------
(* C17 .. C19: checked under SpecProgram *)

Aligned == args.address % 15 = 0 /\ Len(args.words) % 15 = 0

CountOp(calls, op) == Len(SelectSeq(calls, LAMBDA c : c.op = op))

\* C17: program() with an address or a word count that is not a multiple of
\* 15 fails on its assertion before any transport call, on both paths; with
\* both a multiple of 15 the assertion does not fail.
C17_AssertionFirst ==
    args.operation = "program" /\ pc # "call" =>
        IF ~Aligned
        THEN /\ trace = <<>>
             /\ dev = DevInit(Erased, KnownId)
             /\ pc \in {"program", "done"}
             /\ pc = "done" => exc = Error("AssertionError")
        ELSE exc = NoError

C17_Witness ==
    /\ args.operation = "program"
    /\ pc = "done"
    /\ args.fast
    /\ args.address = 0
    /\ Len(args.words) = BLOCK_WORDS - 1
    /\ exc = Error("AssertionError")
    /\ trace = <<>>

\* Position in the calls of _fpgm of the DR write of word i (from 0): after
\* the FPGM select, the earlier words and the wait and probe of each earlier
\* block.
WritePos(i) == 2 + i + 2 * (i \div 15)

\* C18: on the slow path the i-th DR write of _fpgm(address, words) carries
\* valid=1, the translated address of word address+i, data words[i] and
\* strobe=1 exactly when i % 15 = 14; a strobe write is followed by one
\* 20,000-cycle wait and one probe exchange with valid=0 and strobe=0 before
\* the next word, another write by neither; 15*n words take n waits and n
\* probes.
C18_SlowProgramOrder ==
    args.operation = "program" /\ ~args.fast /\ Aligned /\ pc # "call" =>
        LET ws == args.words
            n == Len(ws) \div 15
            strobe(i) == IF i % 15 = 14 THEN 1 ELSE 0
        IN  /\ \A i \in 0..(Len(ws) - 1) :
                  /\ WritePos(i) <= Len(trace) =>
                        trace[WritePos(i)] =
                           write_dr(50, Reg(1, strobe(i),
                                            bitstream_to_device_address(args.address + i),
                                            ws[i + 1]))
                  /\ (strobe(i) = 1 /\ WritePos(i) + 1 <= Len(trace)) =>
                        trace[WritePos(i) + 1] = run_test_idle(20000)
                  /\ (strobe(i) = 1 /\ WritePos(i) + 2 <= Len(trace)) =>
                        /\ trace[WritePos(i) + 2].op = "exchange_dr"
                        /\ trace[WritePos(i) + 2].len = 50
                        /\ trace[WritePos(i) + 2].reg.valid = 0
                        /\ trace[WritePos(i) + 2].reg.strobe = 0
            /\ Len(trace) >= 1 => trace[1] = write_ir("FPGM")
            /\ ws # <<>> => Len(trace) <= 1 + Len(ws) + 2 * n
            /\ CountOp(trace, "run_test_idle") <= n
            /\ CountOp(trace, "exchange_dr") <= n
            /\ pc = "done" =>
                  /\ ws # <<>> => Len(trace) = 1 + Len(ws) + 2 * n
                  /\ CountOp(trace, "run_test_idle") = n
                  /\ CountOp(trace, "exchange_dr") = n

C18_Witness ==
    /\ args.operation = "program"
    /\ ~args.fast
    /\ pc = "done"
    /\ args.address = BLOCK_WORDS
    /\ Len(args.words) = 2 * BLOCK_WORDS
    /\ CountOp(trace, "run_test_idle") = 2
    /\ trace[WritePos(29)].reg.address = 84
    /\ trace[WritePos(29)].reg.strobe = 1

\* The data word and strobe flag of each DR write of the calls, and the
\* cycles of each wait, in order.
WritesAndWaits(calls) ==
    LET s == SelectSeq(calls, LAMBDA c : c.op \in {"write_dr", "run_test_idle"})
    IN  [k \in 1..Len(s) |->
            [data |-> s[k].reg.data, strobe |-> s[k].reg.strobe, wait |-> s[k].n]]

\* Every word with its strobe flag, and a wait after the last word of each block.
BlockWritesAndWaits(ws) ==
    [k \in 1..(16 * (Len(ws) \div 15)) |->
        LET b == (k - 1) \div 16
            r == (k - 1) % 16
        IN  IF r = 15
            THEN [data |-> 0, strobe |-> 0, wait |-> 20000]
            ELSE [data |-> ws[15 * b + r + 1],
                  strobe |-> IF r = 14 THEN 1 ELSE 0, wait |-> 0]]

\* C19: program(0, words, fast=True) with 15*n words, n >= 1, selects FPGM and
\* writes words[0..14] with explicit addresses, then selects FPGMI and writes
\* words[15..] in order with no address field; its (data, strobe) pairs and
\* the positions of its waits are those of program(0, words, fast=False).
C19_FastProgramOrder ==
    args.operation = "program" /\ args.address = 0 /\ Aligned
    /\ Len(args.words) >= 15 /\ pc = "done" =>
        LET ws == args.words
        IN  /\ WritesAndWaits(trace) = BlockWritesAndWaits(ws)
            /\ args.fast =>
                  /\ trace[1] = write_ir("FPGM")
                  /\ \A i \in 0..14 :
                        /\ trace[WritePos(i)].op = "write_dr"
                        /\ trace[WritePos(i)].len = 50
                        /\ trace[WritePos(i)].reg.address =
                              bitstream_to_device_address(i)
                        /\ trace[WritePos(i)].reg.data = ws[i + 1]
                  /\ trace[WritePos(15)] = write_ir("FPGMI")
                  /\ \A i \in 15..(Len(ws) - 1) :
                        /\ trace[WritePos(i) + 1].op = "write_dr"
                        /\ trace[WritePos(i) + 1].len = 34
                        /\ trace[WritePos(i) + 1].reg.address = 0
                        /\ trace[WritePos(i) + 1].reg.data = ws[i + 1]
                  /\ CountOp(trace, "write_ir") = 2
                  /\ Len(trace) = 2 + Len(ws) + 2 * (Len(ws) \div 15)

C19_Witness ==
    /\ args.operation = "program"
    /\ args.fast
    /\ args.address = 0
    /\ pc = "done"
    /\ Len(args.words) = 2 * BLOCK_WORDS
    /\ trace[19] = write_ir("FPGMI")
    /\ trace[20] = write_dr(34, Reg(1, 0, 0, args.words[16]))
    /\ WritesAndWaits(trace) = BlockWritesAndWaits(args.words)

----------------------------------------------------------------------------
(* C11, C20: checked under SpecRead *)

\* C11: _fvfyi(count) drops every answer with valid=0 without advancing its
\* index and returns the data of the first `count` answers with valid=1, in
\* order: after N answers with valid=0 and M = count with valid=1 it has
\* issued N + M DR reads and returns the M words.
C11_InvalidDiscarded ==
    args.operation = "read" /\ args.fast /\ pc \in {"_fvfyi_loop", "done"} =>
        LET reads == CountOp(trace, "read_dr")
        IN  /\ frame.offset = reads - invalid
            /\ Len(frame.words) = frame.offset
            /\ \A k \in 1..Len(frame.words) :
                  frame.words[k] = DeviceWord(args.address + k - 1)
            /\ pc = "done" =>
                  /\ result = frame.words
                  /\ Len(result) = args.count
                  /\ reads = args.count + invalid

C11_Witness ==
    /\ args.operation = "read"
    /\ args.fast
    /\ pc = "done"
    /\ args.count = BLOCK_WORDS + 1
    /\ invalid = MaxInvalid
    /\ CountOp(trace, "read_dr") = BLOCK_WORDS + 1 + MaxInvalid
    /\ Len(result) = BLOCK_WORDS + 1
    /\ result[1] # result[2]
    /\ result[BLOCK_WORDS + 1] = DeviceWord(args.address + BLOCK_WORDS)

\* C20: _fvfy(address, count) issues one DR write with valid=1, strobe=1 and
\* the translated start address, whose response it does not capture, then
\* exactly `count` exchanges, and returns `count` words; the k-th word is the
\* device word at address+k when the device captures the word selected by
\* the address strobed before.
C20_SlowReadPipeline ==
    args.operation = "read" /\ ~args.fast /\ pc # "call" =>
        /\ Len(trace) >= 1 => trace[1] = write_ir("FVFY")
        /\ Len(trace) >= 2 =>
              trace[2] = write_dr(50, Reg(1, 1, bitstream_to_device_address(args.address), 0))
        /\ \A k \in 3..Len(trace) :
              /\ trace[k].op = "exchange_dr"
              /\ trace[k].len = 50
              /\ trace[k].reg.valid = 1
              /\ trace[k].reg.strobe = 1
        /\ Len(trace) <= 2 + args.count
        /\ Len(trace) >= 2 => Len(frame.words) = Len(trace) - 2
        /\ \A k \in 1..Len(frame.words) :
              frame.words[k] = DeviceWord(args.address + k - 1)
        /\ pc = "done" =>
              /\ Len(trace) = 2 + args.count
              /\ result = frame.words
              /\ Len(result) = args.count

C20_Witness ==
    /\ args.operation = "read"
    /\ ~args.fast
    /\ pc = "done"
    /\ args.address = BLOCK_WORDS - 1
    /\ args.count = 2
    /\ Len(trace) = 4
    /\ result = <<DeviceWord(14), DeviceWord(15)>>
    /\ result[1] # result[2]

----------------------------------------------------------------------------
(* C12: checked under Spec *)

\* One step of a run, as far as transport failures go.
PropagatedWithoutRetry ==
    \* a call is appended to the calls made, which are never issued again:
    \* the step that issues it either raises or moves the operation on
    /\ trace' # trace =>
          /\ Len(trace') = Len(trace) + 1
          /\ SubSeq(trace', 1, Len(trace)) = trace
          /\ \/ exc'.kind = "TransportError"
             \/ <<pc', frame', invalid'>> # <<pc, frame, invalid>>
    \* the failing call ends the operation: control is at the finally clause
    \* when the failure is inside the try block and at the caller otherwise
    /\ (exc.kind # "TransportError" /\ exc'.kind = "TransportError") =>
          /\ trace' # trace
          /\ ret' = <<>>
          /\ pc' = IF pc \in BeforeTry \cup {"finally"} THEN "done" ELSE "finally"
    \* after the failure only the ISPEX select is issued, and the error stays
    /\ exc.kind = "TransportError" =>
          /\ pc = "finally"
          /\ trace' = Append(trace, write_ir("ISPEX"))
          /\ pc' = "done"
          /\ exc'.kind = "TransportError"

\* C12: a transport call that fails inside identify, read, program or
\* bulk_erase is not retried and ends the operation: no call is issued again,
\* the error reaches the caller of interact, and the only call after the
\* failure is the ISPEX select of the finally clause when the failure was
\* inside the try block.
C12_PropagatedWithoutRetry == [][PropagatedWithoutRetry]_vars

C12_Witness ==
    /\ flaky
    /\ args.operation = "program-bit"
    /\ pc = "done"
    /\ exc = Error("TransportError")
    /\ Len(trace) > 2
    /\ trace[Len(trace)] = write_ir("ISPEX")
    /\ trace[Len(trace) - 1] = run_test_idle(20000)

----------------------------------------------------------------------------
(* C21: checked under SpecRead *)

\* C21: read(address, count, fast=True) issues the FVFY select, one 50-bit DR
\* write with valid=1, strobe=1 and the translated address of `address`, the
\* FVFYI select, and then only 34-bit DR reads until `count` valid words are
\* collected; it issues no exchange, and what it returns is what _fvfyi
\* returns.
C21_FastReadSequence ==
    args.operation = "read" /\ args.fast /\ pc # "call" =>
        /\ Len(trace) >= 1 => trace[1] = write_ir("FVFY")
        /\ Len(trace) >= 2 =>
              trace[2] = write_dr(50, Reg(1, 1, bitstream_to_device_address(args.address), 0))
        /\ Len(trace) >= 3 => trace[3] = write_ir("FVFYI")
        /\ \A k \in 4..Len(trace) : trace[k] = read_dr(34)
        /\ CountOp(trace, "exchange_dr") = 0
        /\ pc = "read_fvfyi" => result = <<>> /\ Len(trace) = 2
        /\ pc = "_fvfyi_loop" =>
              /\ Len(frame.words) = Len(trace) - 3 - invalid
              /\ Len(frame.words) <= args.count
        /\ pc = "done" =>
              /\ Len(trace) = 3 + args.count + invalid
              /\ result = frame.words
              /\ Len(result) = args.count

C21_Witness ==
    /\ args.operation = "read"
    /\ args.fast
    /\ pc = "done"
    /\ args.address = BLOCK_WORDS
    /\ args.count = 2
    /\ invalid = 0
    /\ trace = <<write_ir("FVFY"), write_dr(50, Reg(1, 1, 32, 0)), write_ir("FVFYI"),
                 read_dr(34), read_dr(34)>>
    /\ Len(result) = 2

----------------------------------------------------------------------------
(* C22: checked under SpecReadFair *)

\* C22: _fvfyi(count) returns exactly when the device has delivered `count`
\* answers with valid=1: with a device that eventually answers valid=1 the
\* read returns; an answer with valid=0 leaves the loop where it is, and the
\* loop is left only with `count` words collected, never by an error (there
\* is no ceiling on the polls).
C22_PollTerminates ==
    /\ <>(pc = "done")
    /\ [](pc = "done" => exc = NoError /\ Len(result) = args.count)
    /\ [][(pc = "_fvfyi_loop" /\ pc' # pc) =>
              (Len(frame.words) = frame.count /\ pc' = "done" /\ exc' = NoError)]_vars
    /\ [][(pc = "_fvfyi_loop" /\ frame.offset < frame.count /\ frame' = frame) =>
              (pc' = pc /\ exc' = NoError)]_vars

C22_Witness ==
    /\ args.operation = "read"
    /\ args.fast
    /\ pc = "done"
    /\ args.count = 2
    /\ invalid = MaxInvalid
    /\ Len(result) = 2
    /\ CountOp(trace, "read_dr") = 2 + MaxInvalid

\* Fails under SpecReadForever: without the assumption on the device a read
\* may poll without end.
ReadAlwaysReturns == <>(pc = "done")

----------------------------------------------------------------------------
(* C23: checked under Spec *)

\* The word writes issued since the last 20,000-cycle wait.
Pending ==
    LET waits == {i \in 1..Len(trace) : trace[i].op = "run_test_idle"}
        last == IF waits = {} THEN 0 ELSE Max(waits)
    IN  Cardinality({i \in (last + 1)..Len(trace) : trace[i].op = "write_dr"})

ProgramStopped ==
    args.operation = "program-bit" /\ pc = "done" /\ Selected("FPGM") # {}

----------------------------------------------------------------------------
(* C24: checked under SpecProgram *)

\* C24: _fpgm(address, []) issues the FPGM select and one 50-bit DR write of
\* ISCONFIGURATION(valid=1, strobe=0, translated address, data=0), no wait and
\* no probe; after a non-empty word list no such write is issued.
C24_EmptyWordList ==
    args.operation = "program" /\ Aligned /\ pc = "done" =>
        LET prime(address) ==
                write_dr(50, Reg(1, 0, bitstream_to_device_address(address), 0))
        IN  IF args.words = <<>>
            THEN trace = IF args.fast
                         THEN <<write_ir("FPGM"), prime(0), write_ir("FPGMI")>>
                         ELSE <<write_ir("FPGM"), prime(args.address)>>
            ELSE /\ CountOp(trace, "write_dr") = Len(args.words)
                 /\ \A i \in 1..Len(trace) :
                       trace[i].op = "write_dr" /\ trace[i].reg.strobe = 0 =>
                          /\ i < Len(trace)
                          /\ trace[i + 1].op = "write_dr"
                 /\ ~args.fast => trace[Len(trace)].op = "exchange_dr"

C24_Witness ==
    /\ args.operation = "program"
    /\ ~args.fast
    /\ pc = "done"
    /\ args.address = 2 * BLOCK_WORDS
    /\ args.words = <<>>
    /\ trace = <<write_ir("FPGM"), write_dr(50, Reg(1, 0, 64, 0))>>

----------------------------------------------------------------------------
(* C25: checked under SpecTool *)

\* Word i (from 0) of the 16 USERCODE words of the file.
UsercodeWord(i) ==
    IF i < 8 THEN args.bit_file[args.device.usercode_low + i + 1]
    ELSE args.bit_file[args.device.usercode_high + (i - 8) + 1]

RECURSIVE SumOver(_, _, _)
SumOver(f(_), lo, hi) == IF lo > hi THEN 0 ELSE f(lo) + SumOver(f, lo + 1, hi)

\* C25: the USERCODE decoded from a .bit file is the sum over i of
\* ((u_i >> 6) & 3) * 4^(15-i), u_0..u_7 being the words at usercode_low.. and
\* u_8..u_15 the words at usercode_high..; it is in [0, 2^32) and no other bit
\* of the file enters it.  (The sum is split at i = 8 into its two 16-bit
\* halves: value = hi * 2^16 + lo.)
C25_UsercodeExtraction ==
    Called("read-bit-usercode") /\ exc = NoError =>
        LET bits67(i) == (UsercodeWord(i) \div 64) % 4
            hiTerm(i) == bits67(i) * 4^(7 - i)
            loTerm(i) == bits67(i) * 4^(15 - i)
        IN  /\ result.hi = SumOver(hiTerm, 0, 7)
            /\ result.lo = SumOver(loTerm, 8, 15)
            /\ result.hi \in 0..65535
            /\ result.lo \in 0..65535

C25_Witness ==
    /\ Called("read-bit-usercode")
    /\ exc = NoError
    /\ args.device.usercode_low = 90
    /\ args.bit_file[113] = 64
    /\ args.bit_file[1] = 255
    /\ result = [hi |-> 65535, lo |-> 65533]

----------------------------------------------------------------------------
(* C26: checked under Spec *)

DrOps == {"write_dr", "read_dr", "exchange_dr"}

\* C26: every DR write, read or exchange shifts as many bits as the register
\* selected by the most recent IR select holds: 32 after IDCODE or USERCODE,
\* 18 after FBULK, 34 after FPGMI or FVFYI, 50 after FPGM or FVFY; none is
\* issued after ISPEN or ISPEX, or before any select.  (Stated of the call
\* issued last: every call of a run is the last call of the state it leads to.)
C26_WidthMatchesInstruction ==
    (trace # <<>> /\ trace[Len(trace)].op \in DrOps) =>
        LET ir == IrAt(Len(trace))
        IN  /\ ir \in {"IDCODE", "USERCODE", "FBULK", "FPGMI", "FVFYI", "FPGM", "FVFY"}
            /\ trace[Len(trace)].len =
                  CASE ir \in {"IDCODE", "USERCODE"} -> 32
                    [] ir = "FBULK" -> 18
                    [] ir \in {"FPGMI", "FVFYI"} -> 34
                    [] OTHER -> 50

C26_Witness ==
    /\ args.operation = "erase"
    /\ pc = "done"
    /\ exc = NoError
    /\ trace[Len(trace) - 1] = read_dr(18)
    /\ IrAt(Len(trace) - 1) = "FBULK"
    /\ trace[2] = read_dr(32)

----------------------------------------------------------------------------
(* C27: checked under SpecRead *)

\* C27: during a slow-path read(address, count, fast=False) of at least one
\* word, every device address presented to the device is the translation of
\* a word index w with address <= w < address + count.
C27_PresentedInRange ==
    args.operation = "read" /\ ~args.fast /\ args.count > 0 =>
        \A k \in 1..Len(trace) :
            trace[k].op \in {"write_dr", "exchange_dr"} =>
                \E w \in args.address..(args.address + args.count - 1) :
                    trace[k].reg.address = bitstream_to_device_address(w)

----------------------------------------------------------------------------
(* C28: checked under SpecProgram *)

\* C28: for a block-aligned address, program(address, words, fast=True)
\* writes its first block at the device addresses of words address ..
\* address+14, and word i of the list ends at word address address+i, as
\* with fast=False.
C28_FastTargetsAddress ==
    args.operation = "program" /\ Aligned /\ Len(args.words) >= 15 /\ pc = "done" =>
        /\ \A i \in 0..14 :
              trace[WritePos(i)].reg.address =
                 bitstream_to_device_address(args.address + i)
        /\ \A i \in 0..(Len(args.words) - 1) :
              DeviceWord(args.address + i) = args.words[i + 1]

\* The same for the slow path alone, and for the fast path at address 0.
SlowTargetsAddress ==
    ~args.fast \/ args.address = 0 => C28_FastTargetsAddress

----------------------------------------------------------------------------
(* C29: checked under SpecLcdFair *)

\* C29: once a command byte is taken from out_fifo in IDLE, the FSM
\* eventually returns to IDLE, when the host supplies the data byte of
\* every write command, the busy flag eventually reads low during a status
\* poll, and in_fifo eventually becomes writable for a data read.
C29_ReturnsToIdle == (fsm # "IDLE") ~> (fsm = "IDLE")

\* The last command of the host's bytes has been carried out.
C29_Witness ==
    /\ fsm = "IDLE"
    /\ bus # <<>>
    /\ host = <<>>
    /\ out_fifo = <<>>

\* With nothing but the clock running, the FSM returns to IDLE over and over
\* or ends up waiting in COMMAND, READ or READ-PROCESS (SpecLcdClock).
ReturnsOrWaits ==
    \/ []<>(fsm = "IDLE")
    \/ <>[](fsm = "COMMAND")
    \/ <>[](fsm = "READ")
    \/ <>[](fsm = "READ-PROCESS")

\* Each of the three waits can last forever: these fail under SpecLcdClock.
NeverWaitsInCommand == []<>(fsm # "COMMAND")
NeverWaitsInRead == []<>(fsm # "READ")
NeverWaitsInReadProcess == []<>(fsm # "READ-PROCESS")

----------------------------------------------------------------------------
(* C30: checked under SpecLcd *)

\* What a write command c with data byte b does on the bus.
WriteEvents(c, b) ==
    IF BitSet(c, XFER_BIT_HALF)
    THEN <<Event("cmd", c), Event("data", b), Event("E", b % 16)>>
    ELSE <<Event("cmd", c), Event("data", b), Event("E", b \div 16), Event("E", b % 16)>>

\* C30: between taking a command and the return to IDLE, a write command
\* without XFER_BIT_HALF takes one data byte and raises E exactly twice, with
\* data[7:4] on the data pins at the first pulse and data[3:0] at the second;
\* a write command with XFER_BIT_HALF raises E exactly once, with data[3:0]
\* on the data pins; a command with XFER_BIT_WAIT never raises E and takes no
\* data byte.
C30_WriteSequencing ==
    bus # <<>> =>
       LET c == bus[1].value
       IN  /\ bus[1] = Event("cmd", c)
           /\ c = cmd
           /\ BitSet(c, XFER_BIT_WAIT) => bus = <<Event("cmd", c)>> /\ e_o = 0
           /\ ~BitSet(c, XFER_BIT_WAIT) /\ ~BitSet(c, XFER_BIT_READ) =>
                 /\ IF fsm = "COMMAND"
                    THEN bus = <<Event("cmd", c)>>
                    ELSE Len(bus) >= 2 /\ bus[2] = Event("data", data)
                 /\ IsPrefix(bus, WriteEvents(c, data))
                 /\ fsm \in {"IDLE", "WAIT"} => bus = WriteEvents(c, data)
                 /\ e_o = 1 => bus[Len(bus)] = Event("E", d_o)

\* A full write, a half write and a wait have returned to IDLE.
C30_Witness ==
    /\ fsm = "IDLE"
    /\ bus = WriteEvents(XFER_WRITE, 165)
    /\ e_o = 0

C30_WitnessHalf ==
    /\ fsm = "IDLE"
    /\ bus = WriteEvents(XFER_INIT, 165)

C30_WitnessWait ==
    /\ fsm = "IDLE"
    /\ bus = <<Event("cmd", XFER_WAIT)>>
    /\ out_fifo = <<XFER_COMMAND>>

----------------------------------------------------------------------------
(* C31: checked under SpecLcd *)

IsSample(event) == event.ev = "sample"
IsPulse(event) == event.ev = "E"
IsPush(event) == event.ev = "in_fifo"

\* The nibbles sampled, the rising edges of E and the bytes written to
\* in_fifo since the command was taken.
Samples == SelectSeq(bus, IsSample)
Pulses == SelectSeq(bus, IsPulse)
Pushes == SelectSeq(bus, IsPush)

\* The command is over: the FSM is past READ-PROCESS.
CommandOver == fsm \in {"WAIT", "IDLE"}

\* C31 as stated: a status poll never writes to in_fifo; a command with
\* XFER_BIT_READ and XFER_BIT_DATA writes exactly one byte, the nibble
\* sampled at the first E pulse as bits 7:4 and the one sampled at the second
\* as bits 3:0; write and wait commands never write to in_fifo.  A command
\* with XFER_BIT_WAIT is taken as a wait command whatever its other bits.
C31_ReadFraming ==
    bus # <<>> =>
       LET c == bus[1].value
           reads == BitSet(c, XFER_BIT_READ) /\ ~BitSet(c, XFER_BIT_WAIT)
       IN  /\ ~(reads /\ BitSet(c, XFER_BIT_DATA)) => Pushes = <<>>
           /\ reads /\ BitSet(c, XFER_BIT_DATA) =>
                 /\ Len(Pushes) <= 1
                 /\ CommandOver =>
                       /\ Len(Pulses) = 2
                       /\ Len(Samples) = 2
                       /\ Pushes = <<Event("in_fifo",
                                           16 * Samples[1].value + Samples[2].value)>>

\* C31, amended: a command with XFER_BIT_WAIT, a command without
\* XFER_BIT_READ and a status poll never write to in_fifo.  A data read
\* without XFER_BIT_WAIT writes exactly one byte to in_fifo: without
\* XFER_BIT_HALF after two E pulses, the nibble sampled at the first as bits
\* 7:4 and the one sampled at the second as bits 3:0; with XFER_BIT_HALF
\* after one E pulse, the nibble sampled as bits 3:0 of the data register,
\* whose bits 7:4 are not sampled.
C31_ReadFramingByBits ==
    bus # <<>> =>
       LET c == bus[1].value
           reads == BitSet(c, XFER_BIT_READ) /\ ~BitSet(c, XFER_BIT_WAIT)
       IN  /\ ~(reads /\ BitSet(c, XFER_BIT_DATA)) => Pushes = <<>>
           /\ BitSet(c, XFER_BIT_WAIT) => Samples = <<>> /\ Pulses = <<>>
           /\ reads /\ BitSet(c, XFER_BIT_DATA) =>
                 /\ Len(Pushes) <= 1
                 /\ Pushes # <<>> => CommandOver
                 /\ CommandOver =>
                       /\ Pushes = <<Event("in_fifo", data)>>
                       /\ bus[Len(bus)] = Pushes[1]
                       /\ IF BitSet(c, XFER_BIT_HALF)
                          THEN /\ Len(Pulses) = 1
                               /\ Len(Samples) = 1
                               /\ data % 16 = Samples[1].value
                          ELSE /\ Len(Pulses) = 2
                               /\ Len(Samples) = 2
                               /\ data = 16 * Samples[1].value + Samples[2].value

\* A data read has written the byte made of the nibbles 13 and 5, and the
\* host has not read it yet.
C31_Witness ==
    /\ fsm = "IDLE"
    /\ bus # <<>>
    /\ bus[1].value = XFER_READ
    /\ Samples = <<Event("sample", 13), Event("sample", 5)>>
    /\ Pushes = <<Event("in_fifo", 213)>>
    /\ in_fifo = <<213>>

\* A half data read after the write of 165: one pulse, and bits 7:4 of the
\* byte are those of 165.
C31_WitnessHalf ==
    /\ fsm = "IDLE"
    /\ bus # <<>>
    /\ bus[1].value = XFER_READ + XFER_BIT_HALF
    /\ Samples = <<Event("sample", 5)>>
    /\ in_fifo = <<165>>

----------------------------------------------------------------------------
(* C32: checked under SpecLcd *)

\* E is high exactly in WRITE-HOLD and READ, and the timer is 0 in IDLE and
\* never negative.
EnableAndTimer ==
    /\ e_o = 1 <=> fsm \in {"WRITE-HOLD", "READ"}
    /\ e_o \in {0, 1}
    /\ fsm = "IDLE" => timer = 0
    /\ timer >= 0

\* A step that lowers the timer lowers it by one, from a non-zero value.
TimerCountsDown == timer' < timer => timer > 0 /\ timer' = timer - 1

\* A step that changes RS or R/W is taken in COMMAND, with E low before and
\* after.
SelectInCommand ==
    rs_o' # rs_o \/ rw_o' # rw_o => fsm = "COMMAND" /\ e_o = 0 /\ e_o' = 0

\* C32: in every reachable state E is high if and only if the FSM is in
\* WRITE-HOLD or READ, and the timer is 0 whenever the FSM is in IDLE; the
\* timer is decremented only when it is non-zero, so it never underflows; RS
\* and R/W change only in COMMAND, while E is low.
C32_FsmInvariant ==
    /\ []EnableAndTimer
    /\ [][TimerCountsDown]_vars
    /\ [][SelectInCommand]_vars

\* In the middle of the first E pulse of a data write: E high, RS raised in
\* COMMAND, the timer counted down from e_pulse_cyc.
C32_Witness ==
    /\ fsm = "WRITE-HOLD"
    /\ e_o = 1
    /\ rs_o = 1
    /\ timer = 1
    /\ Len(bus) = 3

====
